---- MODULE Spec2Model ----
(***************************************************************************)
(* CastToTV Media Hub: the content-script Agent (content/mediaTracker.js), *)
(* the background Registry and Channel Manager (background.js) and the     *)
(* popup Observer (popup/popup.js), as one state machine.                  *)
(*                                                                         *)
(* Every handler of the source is one action.  The sequential body of a    *)
(* handler is written as a composition of operators over a record of the   *)
(* component's state (one operator per source function), and the action    *)
(* stores the resulting record back into the variables.                    *)
(***************************************************************************)
EXTENDS Integers, Sequences, FiniteSets, TLC

(***************************************************************************)
(* Bounds of the model.                                                    *)
(***************************************************************************)
NumElems    == 2    \* media elements that exist on the page
MaxIds      == 2    \* uuids ensureElementId may hand out in one run
MaxBacklog  == 0    \* messages still in flight when an Agent handler starts
MaxSettling == 1    \* unsettled toggle-play promises per element

Elems == 1..NumElems

(***************************************************************************)
(* Values.  JavaScript null / NaN / Infinity are sentinels that no         *)
(* arithmetic is ever applied to (the code tests Number.isFinite first).   *)
(***************************************************************************)
NoId   == 0          \* null activeMediaId, absent data-cast-to-tv-media-id
Null   == -1001      \* null duration in a payload
NaN    == -1002      \* element.duration of a medium without metadata
PosInf == -1003      \* element.duration of a live stream
Absent == -1004      \* a parameter the command message does not carry

IsFinite(x) == x # NaN /\ x # PosInf

Max(a, b) == IF a >= b THEN a ELSE b
Min(a, b) == IF a <= b THEN a ELSE b

\* JavaScript Map operations on a function with a dynamic domain
Has(f, k)    == k \in DOMAIN f
Put(f, k, v) == [x \in (DOMAIN f) \cup {k} |-> IF x = k THEN v ELSE f[x]]
Del(f, k)    == [x \in (DOMAIN f) \ {k} |-> f[x]]
Range(f)     == {f[x] : x \in DOMAIN f}
EmptyMap     == [x \in {} |-> 0]

\* utils/messageTypes.js
MEDIA_UPDATE     == "MEDIA_UPDATE"
MEDIA_REMOVED    == "MEDIA_REMOVED"
MEDIA_COMMAND    == "MEDIA_COMMAND"
SESSIONS_UPDATED == "SESSIONS_UPDATED"
TOGGLE_PLAY      == "toggle-play"
SEEK_RELATIVE    == "seek-relative"
SEEK_ABSOLUTE    == "seek-absolute"
MEDIA_COMMANDS   == {TOGGLE_PLAY, SEEK_RELATIVE, SEEK_ABSOLUTE}

VARIABLES
  \* ---- the page: its media elements (HTMLMediaElement properties) ----
  dataset,          \* element -> data-cast-to-tv-media-id (NoId when absent)
  paused,           \* element -> element.paused
  ended,            \* element -> element.ended
  currentTime,      \* element -> element.currentTime
  duration,         \* element -> element.duration (NaN, PosInf or a number)
  \* ---- the Agent (content/mediaTracker.js) ----
  trackedElements,  \* elementId -> element
  pendingUpdates,   \* elementId -> rafId
  rafCallbacks,     \* rafId -> [elementId, element]: scheduled frame callbacks
  activeMediaId,    \* the active slot
  nextUuid,         \* the next value crypto.randomUUID() returns
  settling,         \* element -> commands whose finalize has not run yet
  pagehideDone,     \* the once-only pagehide listener has run
  outbox,           \* messages sent to the background, not yet received
  emitted,          \* what the last Agent handler sent: <<[msg, at, pending]>>
  cancelled,        \* ids whose frame callback the last Agent handler cancelled
  ack,              \* what the last Agent handler passed to sendResponse
  \* ---- the whole system ----
  last              \* the handler that ran last: [op, id, arg]

pageVars  == <<dataset, paused, ended, currentTime, duration>>
agentVars == <<trackedElements, pendingUpdates, rafCallbacks, activeMediaId,
               nextUuid, settling, pagehideDone, outbox, emitted, cancelled,
               ack>>

(***************************************************************************)
(* The Agent's state as one record, threaded through the source functions. *)
(***************************************************************************)
AgentState ==
  [dataset |-> dataset, paused |-> paused, ended |-> ended,
   currentTime |-> currentTime, duration |-> duration,
   trackedElements |-> trackedElements, pendingUpdates |-> pendingUpdates,
   rafCallbacks |-> rafCallbacks, activeMediaId |-> activeMediaId,
   nextUuid |-> nextUuid, out |-> <<>>, cancelled |-> {}, ack |-> "none"]

\* chrome.runtime.sendMessage: the message, and at that moment the active id
\* and whether a frame callback is pending for the message's element
safeSendMessage(s, m) ==
  [s EXCEPT !.out = Append(@, [msg |-> m, at |-> s.activeMediaId,
                               pending |-> Has(s.pendingUpdates, m.elementId)])]

ensureElementId(s, e) ==
  IF s.dataset[e] = NoId
    THEN [s EXCEPT !.dataset[e] = s.nextUuid, !.nextUuid = @ + 1]
    ELSE s

serializeElement(s, e) ==
  [type        |-> MEDIA_UPDATE,
   elementId   |-> s.dataset[e],
   isPlaying   |-> ~s.paused[e] /\ ~s.ended[e],
   isEnded     |-> s.ended[e],
   duration    |-> IF IsFinite(s.duration[e]) /\ s.duration[e] > 0
                     THEN s.duration[e] ELSE Null,
   currentTime |-> IF IsFinite(s.currentTime[e]) /\ s.currentTime[e] >= 0
                     THEN s.currentTime[e] ELSE 0,
   origin      |-> "a.example",
   siteName    |-> "A Site",
   sourceUrl   |-> "https://a.example/watch"]

RemovedMsg(id) == [type |-> MEDIA_REMOVED, elementId |-> id]

\* mutant: the reporting gate is missing
flushUpdateUngated(s, e) ==
  LET s1 == ensureElementId(s, e) IN safeSendMessage(s1, serializeElement(s1, e))

\* mutant: an element that is not playing is not reported
flushUpdatePlayingOnly(s, e) ==
  LET s1 == ensureElementId(s, e) IN
  IF s1.dataset[e] # s1.activeMediaId \/ s1.paused[e] \/ s1.ended[e]
    THEN s1
    ELSE safeSendMessage(s1, serializeElement(s1, e))

flushUpdate(s, e) ==
  LET s1 == ensureElementId(s, e) IN
  IF s1.dataset[e] # s1.activeMediaId
    THEN s1
    ELSE safeSendMessage(s1, serializeElement(s1, e))

\* cancelAnimationFrame(pendingUpdates.get(id)); pendingUpdates.delete(id)
cancelPending(s, id) ==
  IF Has(s.pendingUpdates, id)
    THEN [s EXCEPT !.rafCallbacks = Del(@, s.pendingUpdates[id]),
                   !.pendingUpdates = Del(@, id),
                   !.cancelled = @ \cup {id}]
    ELSE s

\* requestAnimationFrame returns a handle no live callback and no stored
\* rafId has
FreshRaf(s) ==
  LET used == (DOMAIN s.rafCallbacks) \cup Range(s.pendingUpdates)
  IN  CHOOSE n \in 1..(Cardinality(used) + 1) :
        n \notin used /\ \A m \in 1..(n - 1) : m \in used

\* mutant: a deferred event schedules a callback although one is pending
scheduleUpdateAlways(s, e, immediate) ==
  LET s1 == ensureElementId(s, e)
      id == s1.dataset[e]
  IN  IF immediate
        THEN flushUpdate(cancelPending(s1, id), e)
        ELSE LET rafId == FreshRaf(s1) IN
             [s1 EXCEPT
                !.rafCallbacks = Put(@, rafId, [elementId |-> id, element |-> e]),
                !.pendingUpdates = Put(@, id, rafId)]

\* mutant: an immediate flush leaves the pending frame callback in place
scheduleUpdateNoCancel(s, e, immediate) ==
  LET s1 == ensureElementId(s, e)
      id == s1.dataset[e]
  IN  IF immediate
        THEN flushUpdate(s1, e)
        ELSE IF Has(s1.pendingUpdates, id)
          THEN s1
          ELSE LET rafId == FreshRaf(s1) IN
               [s1 EXCEPT
                  !.rafCallbacks = Put(@, rafId, [elementId |-> id, element |-> e]),
                  !.pendingUpdates = Put(@, id, rafId)]

scheduleUpdate(s, e, immediate) ==
  LET s1 == ensureElementId(s, e)
      id == s1.dataset[e]
  IN  IF immediate
        THEN flushUpdate(cancelPending(s1, id), e)
        ELSE IF Has(s1.pendingUpdates, id)
          THEN s1
          ELSE LET rafId == FreshRaf(s1) IN
               [s1 EXCEPT
                  !.rafCallbacks = Put(@, rafId, [elementId |-> id, element |-> e]),
                  !.pendingUpdates = Put(@, id, rafId)]

\* mutant: the outgoing element is not removed
setActiveElementNoRemove(s, e) ==
  LET s1    == ensureElementId(s, e)
      newId == s1.dataset[e]
  IN  IF s1.activeMediaId = newId
        THEN s1
        ELSE scheduleUpdate([s1 EXCEPT !.activeMediaId = newId], e, TRUE)

\* mutant: the new element is flushed before the outgoing one is removed
setActiveElementUpdateFirst(s, e) ==
  LET s1    == ensureElementId(s, e)
      newId == s1.dataset[e]
      old   == s1.activeMediaId
  IN  IF old = newId
        THEN s1
        ELSE LET s2 == scheduleUpdate([s1 EXCEPT !.activeMediaId = newId], e, TRUE)
             IN  IF old # NoId
                   THEN safeSendMessage(cancelPending(s2, old), RemovedMsg(old))
                   ELSE s2

\* mutant: the outgoing element's frame callback is cancelled after its Remove
setActiveElementCancelLate(s, e) ==
  LET s1    == ensureElementId(s, e)
      newId == s1.dataset[e]
  IN  IF s1.activeMediaId = newId
        THEN s1
        ELSE LET s2 == IF s1.activeMediaId # NoId
                         THEN cancelPending(
                                safeSendMessage(s1, RemovedMsg(s1.activeMediaId)),
                                s1.activeMediaId)
                         ELSE s1
                 s3 == [s2 EXCEPT !.activeMediaId = newId]
             IN  scheduleUpdate(s3, e, TRUE)

setActiveElement(s, e) ==
  LET s1    == ensureElementId(s, e)
      newId == s1.dataset[e]
  IN  IF s1.activeMediaId = newId
        THEN s1
        ELSE LET s2 == IF s1.activeMediaId # NoId
                         THEN safeSendMessage(
                                cancelPending(s1, s1.activeMediaId),
                                RemovedMsg(s1.activeMediaId))
                         ELSE s1
                 s3 == [s2 EXCEPT !.activeMediaId = newId]
             IN  scheduleUpdate(s3, e, TRUE)

\* the listener registerElement attaches for every MEDIA_EVENTS type
\* mutant: play on an element does not make it the active one
listenerNoElection(s, e, eventType) ==
  scheduleUpdate(s, e, eventType # "timeupdate")

\* mutant: a play that changes the active element flushes once
listenerSingleFlush(s, e, eventType) ==
  IF eventType = "play" /\ (s.dataset[e] = NoId
                              \/ s.dataset[e] # s.activeMediaId)
    THEN setActiveElement(s, e)
    ELSE scheduleUpdate(s, e, eventType # "timeupdate")

listener(s, e, eventType) ==
  LET s1 == IF eventType = "play" THEN setActiveElement(s, e) ELSE s
  IN  scheduleUpdate(s1, e, eventType # "timeupdate")

\* mutant: every newly registered element takes the active slot
registerElementGreedy(s, e) ==
  LET s1 == ensureElementId(s, e)
      id == s1.dataset[e]
  IN  IF Has(s1.trackedElements, id)
        THEN s1
        ELSE setActiveElement([s1 EXCEPT !.trackedElements = Put(@, id, e)], e)

registerElement(s, e) ==
  LET s1 == ensureElementId(s, e)
      id == s1.dataset[e]
  IN  IF Has(s1.trackedElements, id)
        THEN s1
        ELSE LET s2 == [s1 EXCEPT !.trackedElements = Put(@, id, e)]
             IN  IF s2.activeMediaId = NoId \/ (~s2.paused[e] /\ ~s2.ended[e])
                   THEN setActiveElement(s2, e)
                   ELSE s2

\* mutant: the teardown of the active element clears the slot silently
unregisterElementNoRemove(s, e) ==
  LET id == s.dataset[e] IN
  IF id = NoId THEN s
  ELSE IF ~Has(s.trackedElements, id) THEN s
  ELSE LET s1 == cancelPending(s, id)
           s2 == [s1 EXCEPT !.trackedElements = Del(@, id),
                            !.dataset[e] = NoId]
       IN  IF s2.activeMediaId = id
             THEN [s2 EXCEPT !.activeMediaId = NoId]
             ELSE s2

\* mutant: the teardown leaves the element's frame callback scheduled
unregisterElementKeepPending(s, e) ==
  LET id == s.dataset[e] IN
  IF id = NoId THEN s
  ELSE IF ~Has(s.trackedElements, id) THEN s
  ELSE LET s2 == [s EXCEPT !.trackedElements = Del(@, id),
                           !.dataset[e] = NoId]
       IN  IF s2.activeMediaId = id
             THEN safeSendMessage([s2 EXCEPT !.activeMediaId = NoId],
                                  RemovedMsg(id))
             ELSE s2

\* mutant: after the active element is torn down a tracked element that is
\* playing takes the slot over
unregisterElementPromote(s, e) ==
  LET id == s.dataset[e] IN
  IF id = NoId THEN s
  ELSE IF ~Has(s.trackedElements, id) THEN s
  ELSE LET s1 == cancelPending(s, id)
           s2 == [s1 EXCEPT !.trackedElements = Del(@, id),
                            !.dataset[e] = NoId]
           s3 == safeSendMessage([s2 EXCEPT !.activeMediaId = NoId],
                                 RemovedMsg(id))
           playing == {k \in DOMAIN s2.trackedElements :
                         /\ ~s2.paused[s2.trackedElements[k]]
                         /\ ~s2.ended[s2.trackedElements[k]]}
       IN  IF s2.activeMediaId = id
             THEN IF playing = {} THEN s3
                  ELSE setActiveElement(s3,
                         s2.trackedElements[CHOOSE k \in playing : TRUE])
             ELSE s2

\* mutant: the teardown of the active element reports it removed but leaves
\* its id in the active slot
unregisterElementKeepActive(s, e) ==
  LET id == s.dataset[e] IN
  IF id = NoId THEN s
  ELSE IF ~Has(s.trackedElements, id) THEN s
  ELSE LET s1 == cancelPending(s, id)
           s2 == [s1 EXCEPT !.trackedElements = Del(@, id),
                            !.dataset[e] = NoId]
       IN  IF s2.activeMediaId = id
             THEN safeSendMessage(s2, RemovedMsg(id))
             ELSE s2

unregisterElement(s, e) ==
  LET id == s.dataset[e] IN
  IF id = NoId THEN s
  ELSE IF ~Has(s.trackedElements, id) THEN s
  ELSE LET s1 == cancelPending(s, id)
           s2 == [s1 EXCEPT !.trackedElements = Del(@, id),
                            !.dataset[e] = NoId]
       IN  IF s2.activeMediaId = id
             THEN safeSendMessage([s2 EXCEPT !.activeMediaId = NoId],
                                  RemovedMsg(id))
             ELSE s2

(***************************************************************************)
(* The page an Agent lives in, as the background sees it in `sender`.      *)
(***************************************************************************)
PageUrl      == "https://a.example/watch"
PageHost     == "a.example"
PageSiteName == "A Site"

\* new URL(u).hostname; throws (modelled as "throws") on a malformed url
Hostname(u) ==
  CASE u = "https://a.example/watch" -> "a.example"
    [] u = "https://b.example/live"  -> "b.example"
    [] OTHER                         -> "throws"

\* JavaScript truthiness of a string-valued property
Undefined == "undefined"
NullStr   == "null"
Truthy(v) == v \notin {Undefined, NullStr, ""}
Or(a, b)  == IF Truthy(a) THEN a ELSE b
Field(rec, f) == IF f \in DOMAIN rec THEN rec[f] ELSE Undefined

\* { ...a, ...b }
Spread(a, b) ==
  [f \in (DOMAIN a) \cup (DOMAIN b) |-> IF f \in DOMAIN b THEN b[f] ELSE a[f]]

(***************************************************************************)
(* The coordinator (background.js) and the popup (popup/popup.js).         *)
(***************************************************************************)
NumObservers == 2    \* popups
MaxConnects  == 1    \* ports one popup opens in one run
MaxDown      == 2    \* snapshots in flight on one port
MaxUp        == 1    \* commands in flight on one port
MaxNow       == 1    \* largest value Date.now() takes
MaxInbox     == 1    \* commands in flight to the Agent's tab

Observers == 1..NumObservers
NoPort    == <<>>
NoSession == <<>>
AgentTab  == 1

VARIABLES
  \* ---- the Registry and the Channel Manager (background.js) ----
  mediaSessions,    \* the Map, as its records in insertion order
  popupPorts,       \* the Set, as its ports in insertion order
  now,              \* Date.now()
  bcasts,           \* calls of broadcastSessions in the last handler
  deleted,          \* sessions the last handler deleted from the Map
  tabSends,         \* chrome.tabs.sendMessage calls of the last handler
  inbox,            \* commands sent to the Agent's tab, not yet received
  closedTabs,       \* tabs the browser has closed
  \* ---- the runtime ports between popups and the background ----
  channel,          \* port -> [open, accepted, down, up, bgTold, obsTold]
  \* ---- the Observers (popup/popup.js) ----
  port,             \* observer -> its `port` variable (NoPort when null)
  sessionMap,       \* observer -> sessionId -> session
  timers,           \* observer -> pending setTimeout(connectPort, 600)
  connects,         \* observer -> ports it has opened so far
  posted            \* the postMessage call of the last popup handler, if any

browserVars == <<now, closedTabs>>
hubVars == <<mediaSessions, popupPorts, browserVars, bcasts, deleted, tabSends,
             inbox, channel>>
obsVars == <<port, sessionMap, timers, connects, posted>>
vars    == <<pageVars, agentVars, last, hubVars, obsVars>>

HubState ==
  [mediaSessions |-> mediaSessions, popupPorts |-> popupPorts,
   channel |-> channel, bcasts |-> 0, tabSends |-> <<>>]

buildSessionId(tabId, elementId) == <<tabId, elementId>>

\* index of the record with this key in the Map, 0 when absent
IndexOf(sessions, sessionId) ==
  IF \E i \in 1..Len(sessions) : sessions[i].sessionId = sessionId
    THEN CHOOSE i \in 1..Len(sessions) : sessions[i].sessionId = sessionId
    ELSE 0

mapHas(sessions, sessionId) == IndexOf(sessions, sessionId) # 0
mapGet(sessions, sessionId) == sessions[IndexOf(sessions, sessionId)]

\* Map.set keeps the position of an existing key and appends a new one
mapSet(sessions, sessionId, rec) ==
  IF mapHas(sessions, sessionId)
    THEN [sessions EXCEPT ![IndexOf(sessions, sessionId)] = rec]
    ELSE Append(sessions, rec)

\* the sequence without its i-th item
RemoveAt(seq, i) == SubSeq(seq, 1, i - 1) \o SubSeq(seq, i + 1, Len(seq))

mapDelete(sessions, sessionId) ==
  IF mapHas(sessions, sessionId)
    THEN RemoveAt(sessions, IndexOf(sessions, sessionId))
    ELSE sessions

normalizePayload(payload, sender) ==
  LET sourceUrl    == Or(Field(payload, "sourceUrl"),
                         Or(sender.url, Or(sender.tabUrl, NullStr)))
      originSource == Or(sourceUrl, sender.tabUrl)
      origin0      == Field(payload, "origin")
      origin       == IF ~Truthy(origin0) /\ Truthy(originSource)
                        THEN IF Hostname(originSource) = "throws"
                               THEN Undefined
                               ELSE Hostname(originSource)
                        ELSE origin0
  IN  Spread(payload,
        [sourceUrl |-> sourceUrl,
         origin    |-> Or(origin, NullStr),
         siteName  |-> Or(Field(payload, "siteName"),
                          Or(sender.tabTitle, Or(origin, "Unknown site")))])

\* mutant: the older session first
compareSessionsAscending(a, b) ==
  IF a.isPlaying # b.isPlaying
    THEN (IF a.isPlaying THEN -1 ELSE 1)
    ELSE a.lastUpdated - b.lastUpdated

\* the comparator of serializeSessions
compareSessions(a, b) ==
  IF a.isPlaying # b.isPlaying
    THEN (IF a.isPlaying THEN -1 ELSE 1)
    ELSE b.lastUpdated - a.lastUpdated

\* Array.prototype.sort is stable: x goes before the first item it precedes
InsertSorted(sorted, x) ==
  LET before == {i \in 1..Len(sorted) : compareSessions(x, sorted[i]) < 0}
      pos    == IF before = {} THEN Len(sorted) + 1
                ELSE CHOOSE i \in before : \A j \in before : i <= j
  IN  SubSeq(sorted, 1, pos - 1) \o <<x>> \o SubSeq(sorted, pos, Len(sorted))

RECURSIVE SortFirst(_, _)
SortFirst(seq, n) ==
  IF n = 0 THEN <<>>
  ELSE InsertSorted(SortFirst(seq, n - 1), seq[n])

serializeSessions(sessions) == SortFirst(sessions, Len(sessions))

\* port.postMessage: throws on a port whose channel is gone
postMessage(chan, p, dir, m) ==
  IF chan[p].open
    THEN IF dir = "down" THEN [chan EXCEPT ![p].down = Append(@, m)]
                         ELSE [chan EXCEPT ![p].up = Append(@, m)]
    ELSE chan

RECURSIVE pushAll(_, _, _, _)
pushAll(chan, ports, n, m) ==
  IF n = 0 THEN chan
  ELSE postMessage(pushAll(chan, ports, n - 1, m), ports[n], "down", m)

\* mutant: no try/catch, the first failing push ends the forEach
broadcastSessionsAbort(r) ==
  LET payload == [type |-> SESSIONS_UPDATED,
                  sessions |-> serializeSessions(r.mediaSessions)]
      bad  == {i \in 1..Len(r.popupPorts) : ~r.channel[r.popupPorts[i]].open}
      upto == IF bad = {} THEN Len(r.popupPorts)
              ELSE (CHOOSE i \in bad : \A j \in bad : i <= j) - 1
  IN  [r EXCEPT !.channel = pushAll(r.channel, r.popupPorts, upto, payload),
                !.bcasts = @ + 1]

broadcastSessions(r) ==
  LET payload == [type |-> SESSIONS_UPDATED,
                  sessions |-> serializeSessions(r.mediaSessions)]
  IN  [r EXCEPT !.channel = pushAll(r.channel, r.popupPorts,
                                    Len(r.popupPorts), payload),
                !.bcasts = @ + 1]

\* mutant: the session is stored but the popups are not told
handleMediaUpdateSilent(r, payload, sender, t) ==
  LET tabId == sender.tabId IN
  IF tabId = 0 \/ payload.elementId = NoId THEN r
  ELSE LET sessionId  == buildSessionId(tabId, payload.elementId)
           normalized == normalizePayload(payload, sender)
           session    == Spread(normalized,
                           [tabId |-> tabId, sessionId |-> sessionId,
                            elementId |-> payload.elementId,
                            lastUpdated |-> t])
       IN  [r EXCEPT !.mediaSessions = mapSet(@, sessionId, session)]

\* mutant: the identity of the session is not checked
handleMediaUpdateUnchecked(r, payload, sender, t) ==
  LET tabId      == sender.tabId
      sessionId  == buildSessionId(tabId, payload.elementId)
      normalized == normalizePayload(payload, sender)
      session    == Spread(normalized,
                      [tabId |-> tabId, sessionId |-> sessionId,
                       elementId |-> payload.elementId,
                       lastUpdated |-> t])
  IN  broadcastSessions(
        [r EXCEPT !.mediaSessions = mapSet(@, sessionId, session)])

\* mutant: the new record is merged into the one stored under the key
handleMediaUpdateMerge(r, payload, sender, t) ==
  LET tabId == sender.tabId IN
  IF tabId = 0 \/ payload.elementId = NoId THEN r
  ELSE LET sessionId  == buildSessionId(tabId, payload.elementId)
           normalized == normalizePayload(payload, sender)
           session    == Spread(normalized,
                           [tabId |-> tabId, sessionId |-> sessionId,
                            elementId |-> payload.elementId,
                            lastUpdated |-> t])
           merged     == IF mapHas(r.mediaSessions, sessionId)
                           THEN Spread(mapGet(r.mediaSessions, sessionId),
                                       session)
                           ELSE session
       IN  broadcastSessions(
             [r EXCEPT !.mediaSessions = mapSet(@, sessionId, merged)])

\* mutant: an Update of a tab the browser has closed is ignored
handleMediaUpdateOpenOnly(r, payload, sender, t) ==
  LET tabId == sender.tabId IN
  IF tabId = 0 \/ payload.elementId = NoId \/ tabId \in closedTabs THEN r
  ELSE LET sessionId  == buildSessionId(tabId, payload.elementId)
           normalized == normalizePayload(payload, sender)
           session    == Spread(normalized,
                           [tabId |-> tabId, sessionId |-> sessionId,
                            elementId |-> payload.elementId,
                            lastUpdated |-> t])
       IN  broadcastSessions(
             [r EXCEPT !.mediaSessions = mapSet(@, sessionId, session)])

handleMediaUpdate(r, payload, sender, t) ==
  LET tabId == sender.tabId IN
  IF tabId = 0 \/ payload.elementId = NoId THEN r
  ELSE LET sessionId  == buildSessionId(tabId, payload.elementId)
           normalized == normalizePayload(payload, sender)
           session    == Spread(normalized,
                           [tabId |-> tabId, sessionId |-> sessionId,
                            elementId |-> payload.elementId,
                            lastUpdated |-> t])
       IN  broadcastSessions(
             [r EXCEPT !.mediaSessions = mapSet(@, sessionId, session)])

handleMediaRemoved(r, payload, sender) ==
  LET tabId == sender.tabId IN
  IF tabId = 0 \/ payload.elementId = NoId THEN r
  ELSE LET sessionId == buildSessionId(tabId, payload.elementId) IN
       IF mapHas(r.mediaSessions, sessionId)
         THEN broadcastSessions(
                [r EXCEPT !.mediaSessions = mapDelete(@, sessionId)])
         ELSE r

\* chrome.runtime.onMessage listener of the background
onRuntimeMessage(r, message, sender, t) ==
  CASE message.type = MEDIA_UPDATE  -> handleMediaUpdate(r, message, sender, t)
    [] message.type = MEDIA_REMOVED -> handleMediaRemoved(r, message, sender)
    [] OTHER                        -> r

\* mutant: only the tab's first session is deleted
deleteTabFirstOnly(sessions, n, tabId) ==
  IF \E i \in 1..n : sessions[i].tabId = tabId
    THEN RemoveAt(sessions, CHOOSE i \in 1..n :
                    /\ sessions[i].tabId = tabId
                    /\ \A j \in 1..n : sessions[j].tabId = tabId => i <= j)
    ELSE sessions

\* the sessions a for-of loop over the Map leaves when it deletes tabId's
RECURSIVE deleteTab(_, _, _)
deleteTab(sessions, n, tabId) ==
  IF n = 0 THEN <<>>
  ELSE IF sessions[n].tabId = tabId
    THEN deleteTab(sessions, n - 1, tabId)
    ELSE Append(deleteTab(sessions, n - 1, tabId), sessions[n])

RECURSIVE broadcastTimes(_, _)
broadcastTimes(r, n) ==
  IF n = 0 THEN r ELSE broadcastSessions(broadcastTimes(r, n - 1))

\* mutant: one broadcast per deleted session
tabsOnRemovedPerSession(r, tabId) ==
  LET hits == {i \in 1..Len(r.mediaSessions) : r.mediaSessions[i].tabId = tabId}
      r1   == [r EXCEPT !.mediaSessions = deleteTab(@, Len(@), tabId)]
  IN  broadcastTimes(r1, Cardinality(hits))

\* mutant: the tab's sessions are deleted but the popups are not told
tabsOnRemovedSilent(r, tabId) ==
  [r EXCEPT !.mediaSessions = deleteTab(@, Len(@), tabId)]

\* chrome.tabs.onRemoved listener
tabsOnRemoved(r, tabId) ==
  LET hasChanges == \E i \in 1..Len(r.mediaSessions) :
                       r.mediaSessions[i].tabId = tabId
      r1 == [r EXCEPT !.mediaSessions = deleteTab(@, Len(@), tabId)]
  IN  IF hasChanges THEN broadcastSessions(r1) ELSE r1

\* mutant: a command for an unknown session is broadcast as a change
dispatchMediaCommandNoisy(r, message) ==
  IF message.sessionId = NoSession \/ ~mapHas(r.mediaSessions, message.sessionId)
    THEN broadcastSessions(r)
    ELSE LET session == mapGet(r.mediaSessions, message.sessionId) IN
         [r EXCEPT !.tabSends = Append(@,
            [tabId |-> session.tabId, type |-> MEDIA_COMMAND,
             elementId |-> session.elementId, command |-> message.command,
             arg |-> message.arg])]

\* mutant: a send to a tab that does not answer is made a second time
dispatchMediaCommandRetry(r, message) ==
  IF message.sessionId = NoSession \/ ~mapHas(r.mediaSessions, message.sessionId)
    THEN r
    ELSE LET session == mapGet(r.mediaSessions, message.sessionId)
             m == [tabId |-> session.tabId, type |-> MEDIA_COMMAND,
                   elementId |-> session.elementId,
                   command |-> message.command, arg |-> message.arg]
         IN  [r EXCEPT !.tabSends =
                IF session.tabId = AgentTab THEN Append(@, m)
                ELSE Append(Append(@, m), m)]

dispatchMediaCommand(r, message) ==
  IF message.sessionId = NoSession \/ ~mapHas(r.mediaSessions, message.sessionId)
    THEN r
    ELSE LET session == mapGet(r.mediaSessions, message.sessionId) IN
         [r EXCEPT !.tabSends = Append(@,
            [tabId |-> session.tabId, type |-> MEDIA_COMMAND,
             elementId |-> session.elementId, command |-> message.command,
             arg |-> message.arg])]

(***************************************************************************)
(* Commands executed by the Agent.                                         *)
(***************************************************************************)
\* mutant: the target is not floored at 0
seekToNoFloor(s, e, targetTime) ==
  LET dur == IF IsFinite(s.duration[e]) /\ s.duration[e] > 0
               THEN s.duration[e] ELSE Null
      nextTime == IF dur # Null THEN Min(targetTime, dur) ELSE targetTime
  IN  [s EXCEPT !.currentTime[e] = nextTime]

seekTo(s, e, targetTime) ==
  LET dur == IF IsFinite(s.duration[e]) /\ s.duration[e] > 0
               THEN s.duration[e] ELSE Null
      nextTime == IF dur # Null THEN Min(Max(0, targetTime), dur)
                  ELSE IF targetTime < 0 THEN 0 ELSE targetTime
  IN  [s EXCEPT !.currentTime[e] = nextTime]

\* commandHandlers[SEEK_RELATIVE]; an absent delta defaults to 0
seekRelative(s, e, arg) ==
  LET delta == IF arg = Absent THEN 0 ELSE arg IN
  IF ~IsFinite(delta) THEN s
  ELSE seekTo(s, e, s.currentTime[e] + delta)

\* commandHandlers[SEEK_ABSOLUTE]; an absent time defaults to 0
seekAbsolute(s, e, arg) ==
  LET time == IF arg = Absent THEN 0 ELSE arg IN
  IF ~IsFinite(time) THEN s
  ELSE seekTo(s, e, time)

\* commandHandlers[TOGGLE_PLAY] up to its await: element.play() either
\* starts playback (the element fires play) or is rejected by the autoplay
\* policy and changes nothing; element.pause() fires pause
togglePlay(s, e, allowed) ==
  IF s.paused[e] \/ s.ended[e]
    THEN IF allowed
           THEN listener([s EXCEPT !.paused[e] = FALSE, !.ended[e] = FALSE],
                         e, "play")
           ELSE s
    ELSE listener([s EXCEPT !.paused[e] = TRUE], e, "pause")

\* mutant: the flush after the command is a deferred one
finalizeDeferred(s, e, ok) ==
  scheduleUpdate([s EXCEPT !.ack = IF ok THEN "ok" ELSE "failed"], e, FALSE)

\* finalize(ok): sendResponse, then the forced flush
finalize(s, e, ok) ==
  scheduleUpdate([s EXCEPT !.ack = IF ok THEN "ok" ELSE "failed"], e, TRUE)

(***************************************************************************)
(* Storing a handler's result.  The result is bound once (v) and its       *)
(* fields are assigned to the variables.                                   *)
(***************************************************************************)
Msgs(out) == [i \in 1..Len(out) |-> out[i].msg]

StoreAgent(s) ==
  \E v \in {s} :
    /\ ~pagehideDone
    /\ Len(outbox) <= MaxBacklog
    /\ dataset' = v.dataset
    /\ paused' = v.paused
    /\ ended' = v.ended
    /\ currentTime' = v.currentTime
    /\ duration' = v.duration
    /\ trackedElements' = v.trackedElements
    /\ pendingUpdates' = v.pendingUpdates
    /\ rafCallbacks' = v.rafCallbacks
    /\ activeMediaId' = v.activeMediaId
    /\ nextUuid' = v.nextUuid
    /\ outbox' = outbox \o Msgs(v.out)
    /\ emitted' = v.out
    /\ cancelled' = v.cancelled
    /\ ack' = v.ack

StoreHub(r) ==
  \E v \in {r} :
    /\ \A p \in DOMAIN v.channel : Len(v.channel[p].down) <= MaxDown
    /\ mediaSessions' = v.mediaSessions
    /\ popupPorts' = v.popupPorts
    /\ channel' = v.channel
    /\ bcasts' = v.bcasts
    /\ deleted' = Max(0, Len(mediaSessions) - Len(v.mediaSessions))
    /\ tabSends' = v.tabSends
    /\ inbox' = inbox \o SelectSeq(v.tabSends, LAMBDA m : m.tabId = AgentTab)
    /\ Len(inbox') <= MaxInbox

\* what ran last: the handler, the element id it was invoked for and, for a
\* command, its parameter
DidCommand(op, id, arg) == last' = [op |-> op, id |-> id, arg |-> arg]
Did(op, id) == DidCommand(op, id, Absent)

\* the element still carries the listener registerElement attached
Attached(e) == \E id \in DOMAIN trackedElements : trackedElements[id] = e

\* ensureElementId can still hand out a uuid if the element needs one
CanIdentify(e) == dataset[e] # NoId \/ nextUuid <= MaxIds

(***************************************************************************)
(* Agent actions: one per handler of content/mediaTracker.js.              *)
(***************************************************************************)
\* MutationObserver addedNodes / the initial scan
Register(e) ==
  /\ CanIdentify(e)
  /\ StoreAgent(registerElement(AgentState, e))
  /\ Did("register", dataset[e])
  /\ UNCHANGED <<settling, pagehideDone, hubVars, obsVars>>

\* MutationObserver removedNodes
Unregister(e) ==
  /\ StoreAgent(unregisterElement(AgentState, e))
  /\ Did("unregister", dataset[e])
  /\ UNCHANGED <<settling, pagehideDone, hubVars, obsVars>>

\* the element starts playing (user gesture, autoplay, page script)
ElemPlay(e) ==
  /\ paused[e] \/ ended[e]
  /\ LET s == [AgentState EXCEPT !.paused[e] = FALSE, !.ended[e] = FALSE]
     IN  StoreAgent(IF Attached(e) THEN listener(s, e, "play") ELSE s)
  /\ Did("play", dataset[e])
  /\ UNCHANGED <<settling, pagehideDone, hubVars, obsVars>>

ElemPause(e) ==
  /\ ~paused[e]
  /\ LET s == [AgentState EXCEPT !.paused[e] = TRUE]
     IN  StoreAgent(IF Attached(e) THEN listener(s, e, "pause") ELSE s)
  /\ Did("pause", dataset[e])
  /\ UNCHANGED <<settling, pagehideDone, hubVars, obsVars>>

ElemEnded(e) ==
  /\ ~paused[e] /\ ~ended[e]
  /\ LET s == [AgentState EXCEPT !.ended[e] = TRUE]
     IN  StoreAgent(IF Attached(e) THEN listener(s, e, "ended") ELSE s)
  /\ Did("ended", dataset[e])
  /\ UNCHANGED <<settling, pagehideDone, hubVars, obsVars>>

\* playback progress: the element moves to position t and fires timeupdate
ElemTimeUpdate(e, t) ==
  /\ Attached(e)
  /\ StoreAgent(listener([AgentState EXCEPT !.currentTime[e] = t],
                         e, "timeupdate"))
  /\ Did("timeupdate", dataset[e])
  /\ UNCHANGED <<settling, pagehideDone, hubVars, obsVars>>

\* any other MEDIA_EVENTS type (volumechange, ratechange, seeked, ...)
ElemOther(e) ==
  /\ Attached(e)
  /\ StoreAgent(listener(AgentState, e, "volumechange"))
  /\ Did("volumechange", dataset[e])
  /\ UNCHANGED <<settling, pagehideDone, hubVars, obsVars>>

\* the requestAnimationFrame callback scheduleUpdate registered
Frame(rafId) ==
  /\ rafId \in DOMAIN rafCallbacks
  /\ LET cb == rafCallbacks[rafId]
         s  == [AgentState EXCEPT !.rafCallbacks = Del(@, rafId),
                                  !.pendingUpdates = Del(@, cb.elementId)]
     IN  StoreAgent(flushUpdate(s, cb.element))
  /\ Did("frame", rafCallbacks[rafId].elementId)
  /\ UNCHANGED <<settling, pagehideDone, hubVars, obsVars>>

\* commandHandlers is an object literal, so commandHandlers[command] also
\* finds what the object inherits from Object.prototype; of those names,
\* these are functions that return a value that is no promise when called
\* with (element, message), and leave the element alone
InheritedHandlers == {"toString", "valueOf", "constructor"}

\* commandHandlers[command] is truthy
HasHandler(command) == command \in MEDIA_COMMANDS \cup InheritedHandlers

\* chrome.runtime.onMessage listener of the content script
Execute(elementId, command, arg, allowed) ==
  IF ~Has(trackedElements, elementId) \/ ~HasHandler(command)
    THEN /\ StoreAgent([AgentState EXCEPT !.ack = "unknown-element"])
         /\ DidCommand("rejected", elementId, arg)
         /\ UNCHANGED <<settling, pagehideDone, obsVars>>
    ELSE LET e == trackedElements[elementId] IN
         IF command = TOGGLE_PLAY
           THEN /\ settling[e] < MaxSettling
                /\ StoreAgent(togglePlay(AgentState, e, allowed))
                /\ settling' = [settling EXCEPT ![e] = @ + 1]
                /\ DidCommand(command, elementId, arg)
                /\ UNCHANGED <<pagehideDone, obsVars>>
           ELSE /\ StoreAgent(finalize(
                     CASE command = SEEK_RELATIVE ->
                            seekRelative(AgentState, e, arg)
                       [] command = SEEK_ABSOLUTE ->
                            seekAbsolute(AgentState, e, arg)
                       [] OTHER -> AgentState, e, TRUE))
                /\ DidCommand(command, elementId, arg)
                /\ UNCHANGED <<settling, pagehideDone, obsVars>>

\* the listener runs for a Command, whatever sent it
Command(elementId, command, arg, allowed) ==
  /\ Execute(elementId, command, arg, allowed)
  /\ UNCHANGED hubVars

\* the listener runs for the oldest Command the background sent to this tab
AgentRecv(allowed) ==
  /\ inbox # <<>>
  /\ Execute(Head(inbox).elementId, Head(inbox).command, Head(inbox).arg,
             allowed)
  /\ inbox' = Tail(inbox)
  /\ UNCHANGED <<mediaSessions, popupPorts, browserVars, bcasts, deleted,
                 tabSends, channel>>

\* the promise of the async toggle-play handler settles: finalize(true)
Settle(e) ==
  /\ settling[e] > 0
  /\ CanIdentify(e)
  /\ StoreAgent(finalize(AgentState, e, TRUE))
  /\ settling' = [settling EXCEPT ![e] = @ - 1]
  /\ Did("settle", dataset[e])
  /\ UNCHANGED <<pagehideDone, hubVars, obsVars>>

\* mutant: the pass ends after the first element
unregisterAllFirstOnly(s, els) ==
  IF els = {} THEN s
  ELSE unregisterElement(s, CHOOSE x \in els : \A y \in els : x <= y)

RECURSIVE unregisterAll(_, _)
unregisterAll(s, els) ==
  IF els = {} THEN s
  ELSE LET e == CHOOSE x \in els : \A y \in els : x <= y
       IN  unregisterAll(unregisterElement(s, e), els \ {e})

\* the pagehide listener ({ once: true }); the page context is discarded
\* after it, so no handler of the Agent runs any more
PageHide ==
  /\ StoreAgent(unregisterAll(AgentState, Range(trackedElements)))
  /\ pagehideDone' = TRUE
  /\ Did("pagehide", NoId)
  /\ UNCHANGED <<settling, hubVars, obsVars>>

(***************************************************************************)
(* The background receives what the Agent sent.                            *)
(***************************************************************************)
AgentSender == [tabId |-> AgentTab, url |-> PageUrl, tabUrl |-> PageUrl,
                tabTitle |-> "A Title"]

\* chrome.runtime.onMessage listener of the background, for the oldest
\* message of the Agent still in flight
Deliver ==
  /\ outbox # <<>>
  /\ StoreHub(onRuntimeMessage(HubState, Head(outbox), AgentSender, now))
  /\ outbox' = Tail(outbox)
  /\ Did("deliver", Head(outbox).elementId)
  /\ UNCHANGED <<pageVars, trackedElements, pendingUpdates, rafCallbacks,
                 activeMediaId, nextUuid, settling, pagehideDone, emitted,
                 cancelled, ack, browserVars, obsVars>>

(***************************************************************************)
(* Other pages: what their Agents send, as the background receives it.     *)
(***************************************************************************)
\* sender of a message from tab t; t = 0 is a sender without a tab
Sender(t) ==
  IF t = 0
    THEN [tabId |-> 0, url |-> Undefined, tabUrl |-> Undefined,
          tabTitle |-> Undefined]
    ELSE [tabId |-> t, url |-> PageUrl, tabUrl |-> PageUrl,
          tabTitle |-> "A Title"]

\* the payload serializeElement builds for an element in the given state
Payload(elementId, isPlaying) ==
  [type |-> MEDIA_UPDATE, elementId |-> elementId, isPlaying |-> isPlaying,
   isEnded |-> FALSE, duration |-> Null, currentTime |-> 0,
   origin |-> PageHost, siteName |-> PageSiteName, sourceUrl |-> PageUrl]

(***************************************************************************)
(* Background actions: one per listener of background.js.                  *)
(***************************************************************************)
\* chrome.runtime.onMessage listener, for a message of some tab's Agent
ExtUpdate(t, elementId, isPlaying) ==
  /\ StoreHub(onRuntimeMessage(HubState, Payload(elementId, isPlaying),
                               Sender(t), now))
  /\ DidCommand("update", elementId, t)
  /\ UNCHANGED <<pageVars, agentVars, browserVars, obsVars>>

ExtRemove(t, elementId) ==
  /\ StoreHub(onRuntimeMessage(HubState, RemovedMsg(elementId), Sender(t), now))
  /\ DidCommand("remove", elementId, t)
  /\ UNCHANGED <<pageVars, agentVars, browserVars, obsVars>>

\* chrome.tabs.onRemoved listener
TabRemoved(t) ==
  /\ StoreHub(tabsOnRemoved(HubState, t))
  /\ Did("tabRemoved", t)
  /\ UNCHANGED <<pageVars, agentVars, browserVars, obsVars>>

\* time passes
Tick ==
  /\ now < MaxNow
  /\ now' = now + 1
  /\ Did("tick", NoId)
  /\ UNCHANGED <<pageVars, agentVars, mediaSessions, popupPorts, closedTabs,
                 bcasts, deleted, tabSends, inbox, channel, obsVars>>

NewChannel ==
  [open |-> TRUE, accepted |-> FALSE, down |-> <<>>, up |-> <<>>,
   bgTold |-> FALSE, obsTold |-> FALSE]

\* Set.add / Set.delete on the Set kept in insertion order
setAdd(ports, p) ==
  IF \E i \in 1..Len(ports) : ports[i] = p THEN ports ELSE Append(ports, p)
setDelete(ports, p) == SelectSeq(ports, LAMBDA q : q # p)

\* mutant: the port joins the live set but gets no snapshot of its own
onConnectNoPush(r, p) ==
  [r EXCEPT !.popupPorts = setAdd(@, p), !.channel[p].accepted = TRUE]

\* chrome.runtime.onConnect listener (the port's name is PORT_NAMES.POPUP)
onConnect(r, p) ==
  LET r1 == [r EXCEPT !.popupPorts = setAdd(@, p),
                      !.channel[p].accepted = TRUE]
  IN  [r1 EXCEPT !.channel = postMessage(@, p, "down",
         [type |-> SESSIONS_UPDATED,
          sessions |-> serializeSessions(r1.mediaSessions)])]

BgOnConnect(p) ==
  /\ Has(channel, p) /\ ~channel[p].accepted
  /\ StoreHub(onConnect(HubState, p))
  /\ DidCommand("onConnect", p[1], p[2])
  /\ UNCHANGED <<pageVars, agentVars, browserVars, obsVars>>

\* port.onDisconnect listener of the background; the events of a port
\* arrive in order, the disconnect after the messages posted before it
BgOnDisconnect(p) ==
  /\ Has(channel, p) /\ channel[p].accepted
  /\ ~channel[p].open /\ ~channel[p].bgTold /\ channel[p].up = <<>>
  /\ StoreHub([HubState EXCEPT !.popupPorts = setDelete(@, p),
                               !.channel[p].bgTold = TRUE])
  /\ DidCommand("bgOnDisconnect", p[1], p[2])
  /\ UNCHANGED <<pageVars, agentVars, browserVars, obsVars>>

\* port.onMessage listener of the background
BgOnPortMessage(p) ==
  /\ Has(channel, p) /\ channel[p].accepted /\ channel[p].up # <<>>
  /\ LET message == Head(channel[p].up)
         r == [HubState EXCEPT !.channel[p].up = Tail(@)]
     IN  StoreHub(IF message.type = MEDIA_COMMAND
                    THEN dispatchMediaCommand(r, message) ELSE r)
  /\ DidCommand("onPortMessage", p[1], p[2])
  /\ UNCHANGED <<pageVars, agentVars, browserVars, obsVars>>

\* the channel between a popup and the background goes away (the service
\* worker is stopped, the popup's document is torn down)
ChannelBreak(p) ==
  /\ Has(channel, p) /\ channel[p].open
  /\ channel' = [channel EXCEPT ![p].open = FALSE]
  /\ DidCommand("break", p[1], p[2])
  /\ UNCHANGED <<pageVars, agentVars, mediaSessions, popupPorts, browserVars,
                 bcasts, deleted, tabSends, inbox, obsVars>>

(***************************************************************************)
(* Observer actions: one per handler of popup/popup.js.                    *)
(***************************************************************************)
ObsState(o) ==
  [port |-> port[o], sessionMap |-> sessionMap[o], timers |-> timers[o],
   connects |-> connects[o], channel |-> channel, posted |-> <<>>]

StoreObs(o, b) ==
  \E v \in {b} :
    /\ \A p \in DOMAIN v.channel : Len(v.channel[p].up) <= MaxUp
    /\ port' = [port EXCEPT ![o] = v.port]
    /\ sessionMap' = [sessionMap EXCEPT ![o] = v.sessionMap]
    /\ timers' = [timers EXCEPT ![o] = v.timers]
    /\ connects' = [connects EXCEPT ![o] = v.connects]
    /\ channel' = v.channel
    /\ posted' = v.posted

\* mutant: a failed open schedules another attempt
connectPortRetry(b, o, throws) ==
  IF throws THEN [b EXCEPT !.timers = @ + 1]
  ELSE LET p == <<o, b.connects + 1>> IN
       [b EXCEPT !.port = p, !.connects = @ + 1,
                 !.channel = Put(@, p, NewChannel)]

\* connectPort(); `throws` is chrome.runtime.connect throwing
connectPort(b, o, throws) ==
  IF throws THEN b
  ELSE LET p == <<o, b.connects + 1>> IN
       [b EXCEPT !.port = p, !.connects = @ + 1,
                 !.channel = Put(@, p, NewChannel)]

\* updateSessions(sessions): clear, then set each session under its id
updateSessions(b, sessions) ==
  [b EXCEPT !.sessionMap =
     [k \in {sessions[i].sessionId : i \in 1..Len(sessions)} |->
        sessions[CHOOSE i \in 1..Len(sessions) :
                   /\ sessions[i].sessionId = k
                   /\ \A j \in 1..Len(sessions) :
                        sessions[j].sessionId = k => j <= i]]]

handlePortMessage(b, message) ==
  IF message.type = SESSIONS_UPDATED
    THEN updateSessions(b, message.sessions)
    ELSE b

\* mutant: the command goes to the port opened last, also when `port` is null
sendCommandStalePort(b, o, sessionId, command, arg) ==
  IF b.connects = 0 \/ ~Has(b.sessionMap, sessionId) THEN b
  ELSE LET m == [type |-> MEDIA_COMMAND, sessionId |-> sessionId,
                 command |-> command, arg |-> arg]
           p == <<o, b.connects>>
       IN  [b EXCEPT !.channel = postMessage(@, p, "up", m),
                     !.posted = <<[port |-> p, message |-> m]>>]

sendCommand(b, o, sessionId, command, arg) ==
  IF b.port = NoPort \/ ~Has(b.sessionMap, sessionId) THEN b
  ELSE LET m == [type |-> MEDIA_COMMAND, sessionId |-> sessionId,
                 command |-> command, arg |-> arg]
       IN  [b EXCEPT !.channel = postMessage(@, b.port, "up", m),
                     !.posted = <<[port |-> b.port, message |-> m]>>]

\* init(): the popup opens
ObsInit(o, throws) ==
  /\ connects[o] = 0 /\ port[o] = NoPort /\ timers[o] = 0
  /\ StoreObs(o, connectPort(ObsState(o), o, throws))
  /\ Did("init", o)
  /\ UNCHANGED <<pageVars, agentVars, mediaSessions, popupPorts, browserVars,
                 bcasts, deleted, tabSends, inbox>>

\* setTimeout(connectPort, 600) fires
ObsTimer(o, throws) ==
  /\ timers[o] > 0
  /\ throws \/ connects[o] < MaxConnects
  /\ StoreObs(o, connectPort([ObsState(o) EXCEPT !.timers = @ - 1], o, throws))
  /\ Did("timer", o)
  /\ UNCHANGED <<pageVars, agentVars, mediaSessions, popupPorts, browserVars,
                 bcasts, deleted, tabSends, inbox>>

\* port.onMessage listener of the popup
ObsRecv(p) ==
  /\ Has(channel, p) /\ channel[p].down # <<>> /\ ~channel[p].obsTold
  /\ LET b == [ObsState(p[1]) EXCEPT !.channel[p].down = Tail(@)]
     IN  StoreObs(p[1], handlePortMessage(b, Head(channel[p].down)))
  /\ DidCommand("obsRecv", p[1], p[2])
  /\ UNCHANGED <<pageVars, agentVars, mediaSessions, popupPorts, browserVars,
                 bcasts, deleted, tabSends, inbox>>

\* mutant: the reference is cleared but no reconnection is scheduled
ObsOnDisconnectNoRetry(p) ==
  /\ Has(channel, p) /\ ~channel[p].open /\ ~channel[p].obsTold
  /\ channel[p].down = <<>>
  /\ StoreObs(p[1], [ObsState(p[1]) EXCEPT !.port = NoPort,
                                           !.channel[p].obsTold = TRUE])
  /\ DidCommand("obsOnDisconnect", p[1], p[2])
  /\ UNCHANGED <<pageVars, agentVars, mediaSessions, popupPorts, browserVars,
                 bcasts, deleted, tabSends, inbox>>

\* mutant: the disconnect listener schedules connectPort twice
ObsOnDisconnectTwice(p) ==
  /\ Has(channel, p) /\ ~channel[p].open /\ ~channel[p].obsTold
  /\ channel[p].down = <<>>
  /\ StoreObs(p[1], [ObsState(p[1]) EXCEPT !.port = NoPort, !.timers = @ + 2,
                                           !.channel[p].obsTold = TRUE])
  /\ DidCommand("obsOnDisconnect", p[1], p[2])
  /\ UNCHANGED <<pageVars, agentVars, mediaSessions, popupPorts, browserVars,
                 bcasts, deleted, tabSends, inbox>>

\* port.onDisconnect listener of the popup
ObsOnDisconnect(p) ==
  /\ Has(channel, p) /\ ~channel[p].open /\ ~channel[p].obsTold
  /\ channel[p].down = <<>>
  /\ StoreObs(p[1], [ObsState(p[1]) EXCEPT !.port = NoPort, !.timers = @ + 1,
                                           !.channel[p].obsTold = TRUE])
  /\ DidCommand("obsOnDisconnect", p[1], p[2])
  /\ UNCHANGED <<pageVars, agentVars, mediaSessions, popupPorts, browserVars,
                 bcasts, deleted, tabSends, inbox>>

\* a control of the card of sessionId is used: sendCommand(sessionId, ...)
ObsCommand(o, sessionId, command, arg) ==
  /\ StoreObs(o, sendCommand(ObsState(o), o, sessionId, command, arg))
  /\ Did("sendCommand", o)
  /\ UNCHANGED <<pageVars, agentVars, mediaSessions, popupPorts, browserVars,
                 bcasts, deleted, tabSends, inbox>>

(***************************************************************************)
(* Initial states.                                                         *)
(***************************************************************************)
\* the content script has just been injected: nothing is tracked yet; the
\* page's elements may already be playing
InitPage(times, durations) ==
  /\ dataset = [e \in Elems |-> NoId]
  /\ paused \in [Elems -> BOOLEAN]
  /\ ended = [e \in Elems |-> FALSE]
  /\ currentTime \in [Elems -> times]
  /\ duration \in [Elems -> durations]

InitAgent ==
  /\ trackedElements = EmptyMap
  /\ pendingUpdates = EmptyMap
  /\ rafCallbacks = EmptyMap
  /\ activeMediaId = NoId
  /\ nextUuid = 1
  /\ settling = [e \in Elems |-> 0]
  /\ pagehideDone = FALSE
  /\ outbox = <<>>
  /\ emitted = <<>>
  /\ cancelled = {}
  /\ ack = "none"
  /\ last = [op |-> "none", id |-> NoId, arg |-> Absent]

\* the service worker has just started: no session, no port
InitHub ==
  /\ mediaSessions = <<>>
  /\ popupPorts = <<>>
  /\ now = 0
  /\ bcasts = 0
  /\ deleted = 0
  /\ tabSends = <<>>
  /\ inbox = <<>>
  /\ closedTabs = {}
  /\ channel = EmptyMap

\* no popup is open
InitObs ==
  /\ port = [o \in Observers |-> NoPort]
  /\ sessionMap = [o \in Observers |-> EmptyMap]
  /\ timers = [o \in Observers |-> 0]
  /\ connects = [o \in Observers |-> 0]
  /\ posted = <<>>

(***************************************************************************)
(* SpecAgent: one page's Agent, its messages and the Registry behind it.   *)
(***************************************************************************)
AgentTimes    == {0}
AgentCommands == MEDIA_COMMANDS \cup {"bogus", "toString"}

InitSpecAgent ==
  /\ InitPage({0}, {NaN})
  /\ InitAgent
  /\ InitHub
  /\ InitObs

NextAgent ==
  \/ \E e \in Elems : Register(e)
  \/ \E e \in Elems : Unregister(e)
  \/ \E e \in Elems : ElemPlay(e)
  \/ \E e \in Elems : ElemPause(e)
  \/ \E e \in Elems : ElemEnded(e)
  \/ \E e \in Elems, t \in AgentTimes : ElemTimeUpdate(e, t)
  \/ \E e \in Elems : ElemOther(e)
  \/ \E rafId \in DOMAIN rafCallbacks : Frame(rafId)
  \/ \E id \in 1..MaxIds, c \in AgentCommands, allowed \in BOOLEAN :
       Command(id, c, 0, allowed)
  \/ \E e \in Elems : Settle(e)
  \/ PageHide
  \/ Deliver

SpecAgent == InitSpecAgent /\ [][NextAgent]_vars

(***************************************************************************)
(* Properties of the Agent.                                                *)
(***************************************************************************)
IsUpdate(m) == m.type = MEDIA_UPDATE
IsRemove(m) == m.type = MEDIA_REMOVED

\* the Registry's sessions of one tab
SessionsOf(tabId) ==
  {i \in 1..Len(mediaSessions) : mediaSessions[i].tabId = tabId}

\* C1 (reporting gate): every Update a handler sends carries the id that is
\* the active id when it is sent (and still is when the handler ends), so an
\* element that is not active never gets an Update sent; the active slot is
\* one id or empty.
C1_ReportingGate ==
  /\ activeMediaId \in {NoId} \cup (1..MaxIds)
  /\ \A i \in 1..Len(emitted) :
       IsUpdate(emitted[i].msg) =>
         /\ emitted[i].msg.elementId # NoId
         /\ emitted[i].msg.elementId = emitted[i].at
         /\ emitted[i].msg.elementId = activeMediaId

\* C1 witness: an Immediate event of a tracked element that is not the
\* active one ran, and nothing was sent.
C1_Witness ==
  /\ last.op = "volumechange"
  /\ Has(trackedElements, last.id)
  /\ activeMediaId # NoId
  /\ last.id # activeMediaId
  /\ emitted = <<>>

\* C2 (single session per page): the Registry never holds two Sessions of
\* the Agent's page.
C2_SingleSessionPerPage == Cardinality(SessionsOf(AgentTab)) <= 1

\* C2 witness: two elements are tracked, the second one has taken the
\* active slot over and the Registry holds its Session (and only that one).
C2_Witness ==
  /\ Has(trackedElements, 1) /\ Has(trackedElements, 2)
  /\ activeMediaId = 2
  /\ Len(mediaSessions) = 1
  /\ mediaSessions[1].sessionId = buildSessionId(AgentTab, 2)
  /\ outbox = <<>>

\* the step is a handler in which tracked element `id` fires play
PlayFired(id) ==
  /\ last'.id = id
  /\ Has(trackedElements, id)
  /\ \/ last'.op = "play"
     \/ /\ last'.op = TOGGLE_PLAY
        /\ paused[trackedElements[id]] \/ ended[trackedElements[id]]
        /\ ~paused'[trackedElements[id]] /\ ~ended'[trackedElements[id]]

\* the Registry's snapshot restricted to the Agent's page, as element ids
PageSnapshot(sessions) ==
  LET snap == serializeSessions(sessions)
  IN  SelectSeq(snap, LAMBDA x : x.tabId = AgentTab)

\* C3 (preemption order): when B fires play while A # B is active, B becomes
\* active and the handler sends Remove(A) and right after it Update(B), with
\* no Update(B) before Remove(A); the Registry never holds both, and once it
\* has applied an Update its snapshot holds that element alone for the page.
C3_PreemptionOrder ==
  /\ [][\A a, b \in 1..MaxIds :
          (PlayFired(b) /\ activeMediaId = a /\ a # b) =>
            /\ activeMediaId' = b
            /\ Len(emitted') >= 2
            /\ emitted'[1].msg = RemovedMsg(a)
            /\ IsUpdate(emitted'[2].msg)
            /\ emitted'[2].msg.elementId = b
            /\ outbox' = outbox \o Msgs(emitted')]_vars
  /\ [][(last'.op = "deliver" /\ IsUpdate(Head(outbox))) =>
          LET snap == PageSnapshot(mediaSessions') IN
            /\ Len(snap) = 1
            /\ snap[1].elementId = Head(outbox).elementId]_vars
  /\ [](\A i, j \in SessionsOf(AgentTab) : i = j)

\* C3 witness: a play handler sent Remove for an element that is still
\* tracked and still playing, then Update for the element that fired play.
C3_Witness ==
  /\ last.op = "play"
  /\ Len(emitted) >= 2
  /\ IsRemove(emitted[1].msg)
  /\ IsUpdate(emitted[2].msg)
  /\ Has(trackedElements, emitted[1].msg.elementId)
  /\ ~paused[trackedElements[emitted[1].msg.elementId]]
  /\ ~ended[trackedElements[emitted[1].msg.elementId]]

\* at most one scheduled frame callback per element id, and pendingUpdates
\* names exactly the scheduled callbacks
OnePendingPerElement ==
  /\ \A r1, r2 \in DOMAIN rafCallbacks :
       rafCallbacks[r1].elementId = rafCallbacks[r2].elementId => r1 = r2
  /\ \A id \in DOMAIN pendingUpdates :
       /\ pendingUpdates[id] \in DOMAIN rafCallbacks
       /\ rafCallbacks[pendingUpdates[id]].elementId = id
  /\ \A r \in DOMAIN rafCallbacks :
       /\ Has(pendingUpdates, rafCallbacks[r].elementId)
       /\ pendingUpdates[rafCallbacks[r].elementId] = r

\* C4 (coalescing): a timeupdate never sends; one that finds a flush pending
\* for its element changes nothing in the Agent; the frame callback of the
\* active element sends exactly one Update, with the element's state at that
\* time; at most one deferred flush is pending per element.
C4_Coalescing ==
  /\ [][last'.op = "timeupdate" =>
          /\ emitted' = <<>>
          /\ outbox' = outbox
          /\ activeMediaId' = activeMediaId
          /\ Has(pendingUpdates', last'.id)
          /\ Has(pendingUpdates, last'.id) =>
               UNCHANGED <<pendingUpdates, rafCallbacks, trackedElements>>]_vars
  /\ [][(last'.op = "frame" /\ last'.id = activeMediaId) =>
          /\ Len(emitted') = 1
          /\ IsUpdate(emitted'[1].msg)
          /\ emitted'[1].msg.elementId = last'.id
          /\ emitted'[1].msg.currentTime =
               currentTime[rafCallbacks[pendingUpdates[last'.id]].element]
          /\ ~Has(pendingUpdates', last'.id)]_vars
  /\ []OnePendingPerElement

\* C4 witness: the frame callback of the active element fired and sent its
\* one Update; no flush is pending for it any more.
C4_Witness ==
  /\ last.op = "frame"
  /\ last.id = activeMediaId
  /\ Len(emitted) = 1
  /\ IsUpdate(emitted[1].msg)
  /\ ~Has(pendingUpdates, last.id)

(***************************************************************************)
(* SpecSeek: the seek commands on one tracked element, over a range of     *)
(* positions, durations and targets.                                       *)
(***************************************************************************)
MaxTime       == 200   \* largest position a seek may reach in the model
SeekElem      == 1
SeekTimes     == {0, 10}
SeekDurations == {NaN, PosInf, 0, 120}
SeekArgs      == {-30, -5, 10, 50, 200, Absent, NaN, PosInf}

InitSpecSeek ==
  /\ dataset = [e \in Elems |-> NoId]
  /\ paused = [e \in Elems |-> TRUE]
  /\ ended = [e \in Elems |-> FALSE]
  /\ \E t \in SeekTimes : currentTime = [e \in Elems |-> t]
  /\ \E d \in SeekDurations : duration = [e \in Elems |-> d]
  /\ InitAgent
  /\ InitHub
  /\ InitObs

NextSeek ==
  \/ Register(SeekElem)
  \/ \E id \in 1..MaxIds, c \in {SEEK_RELATIVE, SEEK_ABSOLUTE}, arg \in SeekArgs :
       /\ Command(id, c, arg, TRUE)
       /\ \A e \in Elems : currentTime'[e] <= MaxTime
  \/ ElemOther(SeekElem)
  \/ Deliver

SpecSeek == InitSpecSeek /\ [][NextSeek]_vars

\* the step is a seek command with a finite parameter on a tracked element
SeekStep ==
  /\ last'.op \in {SEEK_RELATIVE, SEEK_ABSOLUTE}
  /\ Has(trackedElements, last'.id)
  /\ last'.arg # Absent
  /\ IsFinite(last'.arg)

\* C5 (clamp law): seek-absolute(time) aims at time, seek-relative(delta) at
\* currentTime + delta; with a finite duration D > 0 the new position is
\* min(max(0, target), D) and lies in [0, D]; otherwise it is max(0, target);
\* seek-relative(-30) at position 10 of 120 ends at 0.
C5_ClampLaw ==
  [][SeekStep =>
       LET e      == trackedElements[last'.id]
           D      == duration[e]
           target == IF last'.op = SEEK_ABSOLUTE THEN last'.arg
                     ELSE currentTime[e] + last'.arg
           pos    == currentTime'[e]
       IN  /\ IF IsFinite(D) /\ D > 0
                THEN pos = Min(Max(0, target), D) /\ 0 <= pos /\ pos <= D
                ELSE pos = Max(0, target)
           /\ (last'.op = SEEK_RELATIVE /\ last'.arg = -30
                 /\ currentTime[e] = 10 /\ D = 120) => pos = 0]_vars

\* C5 witness: seek-relative(-30) ran on an element of duration 120 and left
\* it at position 0.
C5_Witness ==
  /\ last.op = SEEK_RELATIVE
  /\ last.arg = -30
  /\ Has(trackedElements, last.id)
  /\ duration[trackedElements[last.id]] = 120
  /\ currentTime[trackedElements[last.id]] = 0
  /\ ack = "ok"

(***************************************************************************)
(* SpecRegistry: the Registry under Updates and Removes of several tabs,   *)
(* tab closures and the passing of time.                                   *)
(***************************************************************************)
NumTabs == 2    \* tabs with an Agent

InitIdlePage ==
  /\ dataset = [e \in Elems |-> NoId]
  /\ paused = [e \in Elems |-> TRUE]
  /\ ended = [e \in Elems |-> FALSE]
  /\ currentTime = [e \in Elems |-> 0]
  /\ duration = [e \in Elems |-> NaN]

InitSpecRegistry ==
  /\ InitIdlePage
  /\ InitAgent
  /\ InitHub
  /\ InitObs

NextRegistry ==
  \/ \E t \in 0..NumTabs, id \in 0..MaxIds, playing \in BOOLEAN :
       ExtUpdate(t, id, playing)
  \/ \E t \in 0..NumTabs, id \in 0..MaxIds : ExtRemove(t, id)
  \/ \E t \in 1..NumTabs : TabRemoved(t)
  \/ Tick

SpecRegistry == InitSpecRegistry /\ [][NextRegistry]_vars

C8_RemovalBroadcasts ==
  /\ [][last'.op \in {"remove", "tabRemoved"} =>
          /\ deleted' = Len(mediaSessions) - Len(mediaSessions')
          /\ bcasts' = IF Len(mediaSessions') < Len(mediaSessions)
                         THEN 1 ELSE 0]_vars
  /\ [][(last'.op = "tabRemoved" /\ SessionsOf(last'.id) = {}) =>
          bcasts' = 0 /\ mediaSessions' = mediaSessions]_vars
  /\ [][(last.op = "tabRemoved" /\ last'.op = "tabRemoved"
           /\ last'.id = last.id) =>
          bcasts' = 0 /\ mediaSessions' = mediaSessions]_vars

\* C8 witness: evictPage deleted two Sessions of one tab with one broadcast.
C8_Witness ==
  /\ last.op = "tabRemoved"
  /\ deleted = 2
  /\ bcasts = 1

\* C9 (evictPage frame): after evictPage(p) no Session of p is left, and the
\* Sessions of the other pages are all there, unchanged and in their order.
C9_EvictPageFrame ==
  [][last'.op = "tabRemoved" =>
       /\ \A i \in 1..Len(mediaSessions') : mediaSessions'[i].tabId # last'.id
       /\ mediaSessions' =
            SelectSeq(mediaSessions, LAMBDA x : x.tabId # last'.id)]_vars

\* C9 witness: evictPage deleted the two Sessions of one tab and a Session
\* of another tab is still in the Registry.
C9_Witness ==
  /\ last.op = "tabRemoved"
  /\ deleted = 2
  /\ \E i \in 1..Len(mediaSessions) : mediaSessions[i].tabId # last.id

(***************************************************************************)
(* SpecHub: the popups, their ports and the background, with one tab whose *)
(* Session comes and goes.                                                 *)
(***************************************************************************)
HubTab      == 2
HubSessions == {buildSessionId(HubTab, 1), NoSession}
Ports       == Observers \X (1..MaxConnects)

InitSpecHub ==
  /\ InitIdlePage
  /\ InitAgent
  /\ InitHub
  /\ InitObs

NextHub ==
  \/ ExtUpdate(HubTab, 1, TRUE)
  \/ ExtRemove(HubTab, 1)
  \/ TabRemoved(HubTab)
  \/ \E p \in Ports : BgOnConnect(p)
  \/ \E p \in Ports : BgOnDisconnect(p)
  \/ \E p \in Ports : BgOnPortMessage(p)
  \/ \E p \in Ports : ChannelBreak(p)
  \/ \E o \in Observers, throws \in BOOLEAN : ObsInit(o, throws)
  \/ \E o \in Observers, throws \in BOOLEAN : ObsTimer(o, throws)
  \/ \E p \in Ports : ObsRecv(p)
  \/ \E p \in Ports : ObsOnDisconnect(p)
  \/ \E o \in Observers, k \in HubSessions : ObsCommand(o, k, TOGGLE_PLAY, Absent)

SpecHub == InitSpecHub /\ [][NextHub]_vars

\* both popups hold a port the background has accepted and that is intact
BothConnected ==
  \A o \in Observers :
    /\ port[o] # NoPort
    /\ channel[port[o]].accepted
    /\ channel[port[o]].open

\* C7 (command drop): a Command whose sessionId is missing or no key of the
\* Registry changes neither the Registry nor the live set, is sent to no
\* page, triggers no broadcast and puts nothing on any popup's port (no
\* error to the sender, nothing to the other Observer).
C7_CommandDrop ==
  [][last'.op = "onPortMessage" =>
       LET message == Head(channel[<<last'.id, last'.arg>>].up) IN
       (message.sessionId = NoSession
          \/ ~mapHas(mediaSessions, message.sessionId)) =>
         /\ mediaSessions' = mediaSessions
         /\ popupPorts' = popupPorts
         /\ tabSends' = <<>>
         /\ bcasts' = 0
         /\ \A q \in DOMAIN channel : channel'[q].down = channel[q].down]_vars

\* C7 witness: two popups are connected; popup 1 posted a Command for a
\* session of its cache that the Registry had already removed (the snapshot
\* saying so is still on its way), and the background has handled the
\* Command without sending anything.
C7_Witness ==
  /\ BothConnected
  /\ last.op = "onPortMessage" /\ last.id = 1
  /\ posted # <<>>
  /\ posted[1].port = port[1]
  /\ Has(sessionMap[1], posted[1].message.sessionId)
  /\ ~mapHas(mediaSessions, posted[1].message.sessionId)
  /\ channel[port[1]].up = <<>>
  /\ channel[port[1]].down # <<>>
  /\ tabSends = <<>>
  /\ bcasts = 0

\* C10 (observer command gate): sendCommand calls postMessage only on the
\* port its `port` variable holds, and only for a sessionId that is a key of
\* its cache; with `port` empty it posts nothing, and nothing gets onto a
\* port without such a call.
C10_ObserverCommandGate ==
  [][last'.op = "sendCommand" =>
       /\ posted' # <<>> =>
            /\ port[last'.id] # NoPort
            /\ posted'[1].port = port[last'.id]
            /\ Has(sessionMap[last'.id], posted'[1].message.sessionId)
       /\ port[last'.id] = NoPort => posted' = <<>>
       /\ posted' = <<>> => channel' = channel]_vars

\* C10 witness: a popup that has lost its port, with a session still in its
\* cache, ran sendCommand and posted nothing.
C10_Witness ==
  /\ last.op = "sendCommand"
  /\ port[last.id] = NoPort
  /\ connects[last.id] > 0
  /\ DOMAIN sessionMap[last.id] # {}
  /\ posted = <<>>

\* the port the last port handler ran for
LastPort == <<last.id, last.arg>>

\* the SESSIONS_UPDATED message carrying the snapshot of these sessions
SnapshotMsg(sessions) ==
  [type |-> SESSIONS_UPDATED, sessions |-> serializeSessions(sessions)]

\* C11 (snapshot on connect): accepting a connection adds it to the live set
\* and, with no Registry change and no broadcast, puts the snapshot of the
\* Registry as it is at that time on the new port as its first message;
\* nothing is on a port before that.
C11_SnapshotOnConnect ==
  /\ [][last'.op = "onConnect" =>
          LET p == LastPort' IN
          /\ \E i \in 1..Len(popupPorts') : popupPorts'[i] = p
          /\ mediaSessions' = mediaSessions
          /\ bcasts' = 0
          /\ channel[p].down = <<>>
          /\ channel[p].open =>
               channel'[p].down = <<SnapshotMsg(mediaSessions)>>
          /\ \A q \in DOMAIN channel \ {p} : channel'[q] = channel[q]]_vars
  /\ [](\A p \in DOMAIN channel : ~channel[p].accepted => channel[p].down = <<>>)

\* C11 witness: a popup connected while the Registry held a Session, and the
\* snapshot with that Session is the one message waiting on its port.
C11_Witness ==
  /\ last.op = "onConnect"
  /\ mediaSessions # <<>>
  /\ bcasts = 0
  /\ channel[LastPort].open
  /\ channel[LastPort].down = <<SnapshotMsg(mediaSessions)>>
  /\ port[last.id] = LastPort

\* the ports of the live set
LivePorts == {popupPorts[i] : i \in 1..Len(popupPorts)}

\* C12 (broadcast isolation): a broadcast appends the snapshot to the queue
\* of every live port that is intact, whatever happens on the others; a port
\* whose push fails gets nothing and stays in the live set, and the Registry
\* is the one the handler produced; a port leaves the live set only in its
\* own disconnect handler.
C12_BroadcastIsolation ==
  /\ [][(last'.op \in {"update", "remove", "tabRemoved"} /\ bcasts' > 0) =>
          /\ bcasts' = 1
          /\ popupPorts' = popupPorts
          /\ \A p \in LivePorts :
               IF channel[p].open
                 THEN channel'[p].down =
                        Append(channel[p].down, SnapshotMsg(mediaSessions'))
                 ELSE channel'[p] = channel[p]
          /\ last'.op = "update" =>
               \E i \in 1..Len(mediaSessions') :
                 mediaSessions'[i].sessionId = <<HubTab, last'.id>>
          /\ last'.op \in {"remove", "tabRemoved"} =>
               Len(mediaSessions') < Len(mediaSessions)]_vars
  /\ [][\A p \in LivePorts :
          p \notin LivePorts' =>
            last'.op = "bgOnDisconnect" /\ LastPort' = p]_vars

\* C12 witness: a broadcast found a broken port ahead of an intact one in
\* the live set; the intact one has the new snapshot as its newest message
\* and the broken one is still in the live set.
C12_Witness ==
  /\ last.op \in {"update", "remove", "tabRemoved"}
  /\ bcasts = 1
  /\ \E i, j \in 1..Len(popupPorts) :
       /\ i < j
       /\ ~channel[popupPorts[i]].open
       /\ channel[popupPorts[i]].down = <<>>
       /\ channel[popupPorts[j]].open
       /\ channel[popupPorts[j]].down # <<>>
       /\ channel[popupPorts[j]].down[Len(channel[popupPorts[j]].down)] =
            SnapshotMsg(mediaSessions)

\* the step is the Agent's handler of a Command whose elementId is not
\* tracked or whose command is none of the three MEDIA_COMMANDS
UnknownCommandStep ==
  \/ last'.op = "rejected"
  \/ last'.op \in AgentCommands \ MEDIA_COMMANDS

\* C14 (unknown element or command): such a Command is answered with
\* {ok: false, error: unknown-element} and has no side effect: the elements,
\* the tracked set, the pending flushes and the active slot are unchanged
\* and nothing is sent.
C14_UnknownElementOrCommand ==
  [][UnknownCommandStep =>
       /\ ack' = "unknown-element"
       /\ UNCHANGED <<pageVars, trackedElements, pendingUpdates, rafCallbacks,
                      activeMediaId, outbox>>
       /\ emitted' = <<>>]_vars

\* what finalize leaves behind for element e: the acknowledgment, no pending
\* flush for e, and one Update with e's state if e is the active element,
\* nothing sent otherwise
Finalized(e) ==
  LET id == dataset'[e] IN
  /\ ack' \in {"ok", "failed"}
  /\ ~Has(pendingUpdates', id)
  /\ \A r \in DOMAIN rafCallbacks' : rafCallbacks'[r].elementId # id
  /\ IF id = activeMediaId'
       THEN /\ Len(emitted') = 1
            /\ IsUpdate(emitted'[1].msg)
            /\ emitted'[1].msg.elementId = id
            /\ emitted'[1].msg.isPlaying = (~paused'[e] /\ ~ended'[e])
       ELSE emitted' = <<>>

\* C16 (post-command flush): when a known command on a tracked element
\* settles (a seek at once, toggle-play when its promise settles) the caller
\* gets its acknowledgment and the element's state is flushed at once, its
\* deferred flush cancelled; the Update is sent only if the element is the
\* active one, the acknowledgment in either case.
C16_PostCommandFlush ==
  /\ [][(last'.op \in {SEEK_RELATIVE, SEEK_ABSOLUTE}) =>
          /\ Has(trackedElements, last'.id)
          /\ activeMediaId' = activeMediaId
          /\ Finalized(trackedElements[last'.id])]_vars
  /\ [][last'.op = "settle" =>
          \E e \in Elems :
            /\ settling'[e] = settling[e] - 1
            /\ activeMediaId' = activeMediaId
            /\ Finalized(e)]_vars

\* C16 witness: a seek on a tracked element that is not the active one, with
\* a deferred flush pending for the active one: acknowledged, nothing sent.
C16_Witness ==
  /\ last.op = SEEK_RELATIVE
  /\ Has(trackedElements, last.id)
  /\ activeMediaId # NoId
  /\ last.id # activeMediaId
  /\ Has(pendingUpdates, activeMediaId)
  /\ ack = "ok"
  /\ emitted = <<>>

\* C17 (page-unload teardown): the pagehide handler runs at most once; it
\* tears down every tracked element, so that afterwards nothing is tracked,
\* no flush is pending and the active slot is empty, and it sends exactly
\* one Remove, for the element that was active, or nothing if none was;
\* tearing down an element that is not tracked changes nothing.
C17_PageUnloadTeardown ==
  /\ [][last'.op = "pagehide" =>
          /\ ~pagehideDone /\ pagehideDone'
          /\ trackedElements' = EmptyMap
          /\ pendingUpdates' = EmptyMap
          /\ rafCallbacks' = EmptyMap
          /\ activeMediaId' = NoId
          /\ \A id \in DOMAIN trackedElements :
               dataset'[trackedElements[id]] = NoId
          /\ Msgs(emitted') = IF activeMediaId # NoId
                                THEN <<RemovedMsg(activeMediaId)>>
                                ELSE <<>>]_vars
  /\ [](\A e \in Elems :
          ~Attached(e) => unregisterElement(AgentState, e) = AgentState)

\* C17 witness: the page was unloaded after two elements had been given an
\* id; the Remove of the active one is the one message sent and nothing is
\* left.
C17_Witness ==
  /\ last.op = "pagehide"
  /\ nextUuid > 2
  /\ Len(emitted) = 1
  /\ IsRemove(emitted[1].msg)
  /\ trackedElements = EmptyMap
  /\ pendingUpdates = EmptyMap
  /\ activeMediaId = NoId

\* C18 (unresolvable identity): an Update or Remove whose sender has no tab
\* id, or whose payload has no elementId, leaves the Registry as it is and
\* triggers no broadcast.
C18_UnresolvableIdentity ==
  [][(last'.op \in {"update", "remove"}
        /\ (last'.arg = 0 \/ last'.id = NoId)) =>
       /\ mediaSessions' = mediaSessions
       /\ popupPorts' = popupPorts
       /\ channel' = channel
       /\ bcasts' = 0
       /\ deleted' = 0]_vars

\* C18 witness: an Update with an elementId but from a sender without a tab
\* arrived while the Registry held Sessions, and was dropped.
C18_Witness ==
  /\ last.op = "update"
  /\ last.arg = 0
  /\ last.id # NoId
  /\ Len(mediaSessions) >= 2
  /\ bcasts = 0

\* every Session of the Agent's page is keyed by the active element's id
OnlyActiveInRegistry ==
  \A i \in SessionsOf(AgentTab) :
    /\ mediaSessions[i].elementId = activeMediaId
    /\ mediaSessions[i].sessionId = buildSessionId(AgentTab, activeMediaId)

\* C19 as stated (Registry tracks only active elements): in every state of
\* the whole system, messages in flight included, every Session of the page
\* is keyed by the element that is active in the page's Agent.
C19_AsStated == OnlyActiveInRegistry

\* C19 (Registry tracks only active elements), amended: whenever no message
\* of the page's Agent is in flight, every Session of the page is keyed by
\* the element that is active in the Agent, so none exists for an element
\* that is tracked but not active.
C19_OnlyActiveWhenQuiet == outbox = <<>> => OnlyActiveInRegistry

\* C19 witness: two elements are tracked, nothing is in flight, and the
\* Registry holds the Session of the active one and none for the other.
C19_Witness ==
  /\ last.op = "deliver"
  /\ outbox = <<>>
  /\ Has(trackedElements, 1) /\ Has(trackedElements, 2)
  /\ activeMediaId = 1
  /\ SessionsOf(AgentTab) # {}
  /\ OnlyActiveInRegistry

\* the handler that ran last was a toggle-play on an active element that was
\* paused or ended, and the host rejected element.play(): the element is as
\* it was and no event fired (a pause of the active element would have sent
\* an Update, an accepted play would have started it)
PlaybackRejected ==
  /\ last.op = TOGGLE_PLAY
  /\ Has(trackedElements, last.id)
  /\ last.id = activeMediaId
  /\ paused[trackedElements[last.id]] \/ ended[trackedElements[last.id]]
  /\ emitted = <<>>

\* C15 (playback rejected): when the play attempt of a toggle-play command
\* is rejected, the command is acknowledged exactly once, when it settles,
\* with ok = false, and playback is not attempted again.
C15_PlaybackRejected ==
  /\ [](PlaybackRejected => ack = "none")
  /\ [][(PlaybackRejected /\ last'.op = "settle" /\ last'.id = last.id) =>
          /\ ack' = "failed"
          /\ UNCHANGED <<paused, ended>>]_vars

(***************************************************************************)
(* SpecReconnect: the popups' open / disconnect / retry cycle, for runs in *)
(* which chrome.runtime.connect does not throw.  A port both of whose ends *)
(* have handled the disconnect is garbage, and its number is used again,   *)
(* so that the cycle can go on for ever in a finite state space.  Timers   *)
(* fire and port events are delivered eventually.                          *)
(***************************************************************************)
\* the newest port of a popup is garbage: both ends have seen it go
PortCollected(p) ==
  /\ Has(channel, p)
  /\ ~channel[p].open /\ channel[p].obsTold /\ channel[p].bgTold
  /\ p[2] = connects[p[1]]
  /\ port[p[1]] # p
  /\ channel' = Del(channel, p)
  /\ connects' = [connects EXCEPT ![p[1]] = @ - 1]
  /\ DidCommand("collected", p[1], p[2])
  /\ UNCHANGED <<pageVars, agentVars, mediaSessions, popupPorts, browserVars,
                 bcasts, deleted, tabSends, inbox, port, sessionMap, timers,
                 posted>>

NextReconnect ==
  \/ \E o \in Observers : ObsInit(o, FALSE)
  \/ \E o \in Observers : ObsTimer(o, FALSE)
  \/ \E p \in Ports : ObsRecv(p)
  \/ \E p \in Ports : ObsOnDisconnect(p)
  \/ \E p \in Ports : ChannelBreak(p)
  \/ \E p \in Ports : BgOnConnect(p)
  \/ \E p \in Ports : BgOnDisconnect(p)
  \/ \E p \in Ports : PortCollected(p)
  \/ ExtUpdate(HubTab, 1, TRUE)

FairReconnect ==
  /\ \A o \in Observers : WF_vars(ObsTimer(o, FALSE))
  /\ \A p \in Ports : WF_vars(ObsRecv(p))
  /\ \A p \in Ports : WF_vars(ObsOnDisconnect(p))
  /\ \A p \in Ports : WF_vars(BgOnConnect(p))
  /\ \A p \in Ports : WF_vars(BgOnDisconnect(p))
  /\ \A p \in Ports : WF_vars(PortCollected(p))

SpecReconnect == InitSpecHub /\ [][NextReconnect]_vars /\ FairReconnect

\* C13 (reconnection): the disconnect handler clears the popup's `port` and
\* schedules exactly one connectPort; a popup that has lost its port and has
\* a reconnection scheduled holds a port again later on, every time.
C13_Reconnection ==
  /\ [][last'.op = "obsOnDisconnect" =>
          /\ port'[last'.id] = NoPort
          /\ timers'[last'.id] = timers[last'.id] + 1]_vars
  /\ [][last'.op = "timer" =>
          /\ timers'[last'.id] = timers[last'.id] - 1
          /\ port'[last'.id] # NoPort
          /\ channel'[port'[last'.id]] = NewChannel]_vars
  /\ \A o \in Observers :
       (port[o] = NoPort /\ timers[o] > 0) ~> (port[o] # NoPort)

\* C13 witness: a popup that had lost its port has opened a new one from its
\* timer; the background has not accepted it yet.
C13_Witness ==
  /\ last.op = "timer"
  /\ port[last.id] # NoPort
  /\ timers[last.id] = 0
  /\ channel[port[last.id]].open
  /\ ~channel[port[last.id]].accepted

(***************************************************************************)
(* SpecRoundTrip: the whole path of a command.  One element of the Agent's *)
(* page is tracked and active; the popups connect, receive snapshots and   *)
(* send seek-relative commands for its session; the background routes      *)
(* them to the tab, the Agent executes them and reports, the background    *)
(* broadcasts.  No channel breaks; a report of the Agent, a connection     *)
(* request and a message to a popup are handled eventually (the browser    *)
(* dispatches every queued event).  Nothing is assumed about when a        *)
(* command is routed or executed.                                          *)
(***************************************************************************)
MaxTrips  == 2     \* commands the Agent executes in a run
TripDelta == 10    \* delta a popup's seek button carries (dataset.delta)
TripSession == buildSessionId(AgentTab, 1)

NextRoundTrip ==
  \/ Register(SeekElem)
  \/ Deliver
  \/ \E o \in Observers : ObsInit(o, FALSE)
  \/ \E p \in Ports : BgOnConnect(p)
  \/ \E p \in Ports : ObsRecv(p)
  \/ \E o \in Observers : ObsCommand(o, TripSession, SEEK_RELATIVE, TripDelta)
  \/ \E p \in Ports : BgOnPortMessage(p)
  \/ /\ AgentRecv(TRUE)
     /\ currentTime'[SeekElem] <= MaxTrips * TripDelta

FairRoundTrip ==
  /\ WF_vars(Deliver)
  /\ \A p \in Ports : WF_vars(BgOnConnect(p))
  /\ \A p \in Ports : WF_vars(ObsRecv(p))

SpecRoundTrip == InitSpecHub /\ [][NextRoundTrip]_vars /\ FairRoundTrip

\* the Agent has just executed a command that left the element at position
\* T, and its Update is on the way
Applied(T) ==
  /\ last.op = SEEK_RELATIVE
  /\ Has(trackedElements, last.id)
  /\ currentTime[trackedElements[last.id]] = T
  /\ outbox # <<>>

\* the popup holds an intact port
Connected(o) == port[o] # NoPort /\ channel[port[o]].open

\* the popup's cache has the session at a position of T or later, that is,
\* from a snapshot made after the Update that reported T
Shown(o, T) ==
  /\ Has(sessionMap[o], TripSession)
  /\ sessionMap[o][TripSession].currentTime >= T

\* C20 (command round trip): a Command a popup sends for a live session is
\* routed to the tab with the session's elementId; the Agent, for which the
\* element is tracked and active, applies it and then sends an Update with
\* the new state; and every popup connected at that time later holds a
\* snapshot made after that Update.
C20_CommandRoundTrip ==
  /\ [][(last'.op = "onPortMessage"
           /\ mapHas(mediaSessions,
                     Head(channel[LastPort'].up).sessionId)) =>
          LET message == Head(channel[LastPort'].up)
              session == mapGet(mediaSessions, message.sessionId)
          IN  /\ session.tabId = AgentTab
              /\ inbox' = Append(inbox,
                   [tabId |-> AgentTab, type |-> MEDIA_COMMAND,
                    elementId |-> session.elementId,
                    command |-> message.command, arg |-> message.arg])]_vars
  /\ [][(last'.op = SEEK_RELATIVE /\ Has(trackedElements, last'.id)
           /\ last'.id = activeMediaId) =>
          LET e == trackedElements[last'.id] IN
          /\ inbox # <<>> /\ inbox' = Tail(inbox)
          /\ last'.id = Head(inbox).elementId
          /\ currentTime'[e] = currentTime[e] + Head(inbox).arg
          /\ ack' = "ok"
          /\ Len(emitted') = 1
          /\ IsUpdate(emitted'[1].msg)
          /\ emitted'[1].msg.elementId = last'.id
          /\ emitted'[1].msg.currentTime = currentTime'[e]
          /\ outbox' = outbox \o Msgs(emitted')]_vars
  /\ \A o \in Observers : \A k \in 1..MaxTrips :
       (Applied(k * TripDelta) /\ Connected(o)) ~> Shown(o, k * TripDelta)

\* C20 witness: every popup shows the element, which is the active one of
\* its page, at the position the last of the commands left it at, and the
\* Agent has acknowledged that command.
C20_Witness ==
  /\ last.op = "obsRecv"
  /\ ack = "ok"
  /\ activeMediaId # NoId
  /\ activeMediaId = dataset[SeekElem]
  /\ currentTime[SeekElem] = MaxTrips * TripDelta
  /\ \A o \in Observers : Shown(o, MaxTrips * TripDelta)

(***************************************************************************)
(* SpecEvict: tabs report a Session, once, and are closed, while the       *)
(* popups connect, listen and lose their channels.  A closed tab sends     *)
(* nothing any more.  Connection requests and messages to a popup are      *)
(* handled eventually.                                                     *)
(***************************************************************************)
\* the Agent of a tab that is still there reports its element, once
TabUpdate(t) ==
  /\ t \notin closedTabs
  /\ SessionsOf(t) = {}
  /\ ExtUpdate(t, 1, TRUE)

\* the browser closes tab t and the chrome.tabs.onRemoved listener runs
TabClosed(t) ==
  /\ t \notin closedTabs
  /\ StoreHub(tabsOnRemoved(HubState, t))
  /\ closedTabs' = closedTabs \cup {t}
  /\ Did("tabRemoved", t)
  /\ UNCHANGED <<pageVars, agentVars, now, obsVars>>

NextEvict ==
  \/ \E t \in 1..NumTabs : TabUpdate(t)
  \/ \E t \in 1..NumTabs : TabClosed(t)
  \/ \E o \in Observers : ObsInit(o, FALSE)
  \/ \E p \in Ports : BgOnConnect(p)
  \/ \E p \in Ports : ObsRecv(p)
  \/ \E p \in Ports : ChannelBreak(p)
  \/ \E p \in Ports : ObsOnDisconnect(p)
  \/ \E p \in Ports : BgOnDisconnect(p)

FairEvict ==
  /\ \A p \in Ports : WF_vars(BgOnConnect(p))
  /\ \A p \in Ports : WF_vars(ObsRecv(p))

SpecEvict == InitSpecHub /\ [][NextEvict]_vars /\ FairEvict

\* the popup's cache holds no Session of tab t
NoneOfTab(o, t) ==
  \A k \in DOMAIN sessionMap[o] : sessionMap[o][k].tabId # t

\* the snapshot message holds no Session of tab t
SnapshotWithout(m, t) ==
  /\ m.type = SESSIONS_UPDATED
  /\ \A i \in 1..Len(m.sessions) : m.sessions[i].tabId # t

NonePending(pend, rafs, id) ==
  /\ ~Has(pend, id)
  /\ \A r \in DOMAIN rafs : rafs[r].elementId # id

\* the step moves the active slot from element a to another element
Preempts(a) ==
  /\ a # NoId
  /\ activeMediaId = a
  /\ activeMediaId' \notin {a, NoId}

\* C22 (preemption cancels the outgoing element's deferred flush): when the
\* active slot moves from A to another element, no frame callback is left
\* for A, a pending one was cancelled, the handler's first message is
\* Remove(A), sent with no callback pending for A, and no Update(A) follows
\* it; and a frame callback never sends an Update for an element that is not
\* the active one.
C22_PreemptionCancelsFlush ==
  /\ [][\A a \in 1..MaxIds :
          Preempts(a) =>
            /\ NonePending(pendingUpdates', rafCallbacks', a)
            /\ Has(pendingUpdates, a) => a \in cancelled'
            /\ Len(emitted') >= 1
            /\ emitted'[1].msg = RemovedMsg(a)
            /\ ~emitted'[1].pending
            /\ \A i \in 2..Len(emitted') :
                 emitted'[i].msg.elementId # a]_vars
  /\ [][last'.op = "frame" =>
          /\ activeMediaId' = activeMediaId
          /\ \A i \in 1..Len(emitted') :
               /\ IsUpdate(emitted'[i].msg)
               /\ emitted'[i].msg.elementId = activeMediaId]_vars

\* C22 witness: a play of another element preempted an element that had a
\* deferred flush pending; the callback was cancelled and Remove, then the
\* new element's Updates were sent.
C22_Witness ==
  /\ last.op = "play"
  /\ Len(emitted) >= 2
  /\ IsRemove(emitted[1].msg)
  /\ emitted[1].msg.elementId \in cancelled
  /\ IsUpdate(emitted[2].msg)
  /\ emitted[2].msg.elementId = activeMediaId
  /\ NonePending(pendingUpdates, rafCallbacks, emitted[1].msg.elementId)

\* the event types of MEDIA_EVENTS other than timeupdate, as the model has them
ImmediateEvents == {"play", "pause", "ended", "volumechange"}

\* the step is the listener of tracked element `id` running for an event
\* other than timeupdate
ImmediateStep(id) ==
  /\ last'.op \in ImmediateEvents
  /\ last'.id = id
  /\ Has(trackedElements, id)

\* C23 (immediate events): the listener of a tracked element, run for an
\* event other than timeupdate, leaves no frame callback for the element
\* (one that was pending is cancelled) and, if the element is the active one
\* at the end, has sent as its last message the Update with the element's
\* state after the event, with no callback pending at that time; if it is
\* not the active one, nothing is sent.  So no deferred flush scheduled
\* before the event is left to fire after it.
C23_ImmediateEvents ==
  [][\A id \in 1..MaxIds :
       ImmediateStep(id) =>
         LET e == trackedElements[id]
             n == Len(emitted')
         IN  /\ NonePending(pendingUpdates', rafCallbacks', id)
             /\ Has(pendingUpdates, id) => id \in cancelled'
             /\ IF id = activeMediaId'
                  THEN /\ n >= 1
                       /\ IsUpdate(emitted'[n].msg)
                       /\ emitted'[n].msg.elementId = id
                       /\ emitted'[n].msg.isPlaying =
                            (~paused'[e] /\ ~ended'[e])
                       /\ emitted'[n].msg.isEnded = ended'[e]
                       /\ emitted'[n].msg.currentTime = currentTime'[e]
                       /\ ~emitted'[n].pending
                       /\ outbox' = outbox \o Msgs(emitted')
                  ELSE emitted' = <<>> /\ outbox' = outbox]_vars

\* C23 witness: the active element, with a deferred flush pending, fired
\* pause; the callback was cancelled and the one Update sent says paused.
C23_Witness ==
  /\ last.op = "pause"
  /\ last.id = activeMediaId
  /\ last.id \in cancelled
  /\ NonePending(pendingUpdates, rafCallbacks, last.id)
  /\ Len(emitted) = 1
  /\ IsUpdate(emitted[1].msg)
  /\ ~emitted[1].msg.isPlaying

\* the step is registerElement(e): the element either had the id the
\* handler was invoked for, or had none and was given one
RegisterStep(e) ==
  /\ last'.op = "register"
  /\ IF last'.id = NoId
       THEN dataset[e] = NoId /\ dataset'[e] # NoId
       ELSE dataset[e] = last'.id

\* C24 (election on registration): registering an element that is not
\* tracked adds it to the tracked set and makes it the active element if and
\* only if no element is active or it is playing (not paused, not ended);
\* otherwise the active slot is unchanged and nothing is sent; registering
\* an element that is already tracked changes nothing.
C24_ElectionOnRegistration ==
  [][\A e \in Elems :
       RegisterStep(e) =>
         IF Attached(e)
           THEN /\ UNCHANGED <<pageVars, trackedElements, pendingUpdates,
                               rafCallbacks, activeMediaId, nextUuid, outbox>>
                /\ emitted' = <<>>
           ELSE LET id == dataset'[e] IN
                /\ trackedElements' = Put(trackedElements, id, e)
                /\ (activeMediaId' = id) <=>
                     (activeMediaId = NoId \/ (~paused[e] /\ ~ended[e]))
                /\ activeMediaId' # id =>
                     /\ activeMediaId' = activeMediaId
                     /\ emitted' = <<>>
                     /\ outbox' = outbox
                /\ activeMediaId' = id =>
                     /\ Len(emitted') >= 1
                     /\ IsUpdate(emitted'[Len(emitted')].msg)
                     /\ emitted'[Len(emitted')].msg.elementId = id]_vars

\* C24 witness: a paused element was registered while another element was
\* active: it is tracked, the active slot is the other one's and nothing was
\* sent.
C24_Witness ==
  /\ last.op = "register"
  /\ last.id = NoId
  /\ emitted = <<>>
  /\ activeMediaId # NoId
  /\ Cardinality(DOMAIN trackedElements) = 2
  /\ \E e \in Elems :
       /\ Attached(e)
       /\ dataset[e] # activeMediaId
       /\ paused[e]

\* C25 (element teardown): unregisterElement of a tracked element cancels
\* its pending frame callback (and no other), removes it from the tracked
\* set and clears its id; if it was the active element the active slot
\* becomes empty and exactly one message, Remove for its id, is sent; if it
\* was not, the active slot is unchanged and nothing is sent; for an element
\* that is not tracked nothing changes.
C25_ElementTeardown ==
  [][last'.op = "unregister" =>
       LET id == last'.id IN
       IF id = NoId \/ ~Has(trackedElements, id)
         THEN /\ UNCHANGED <<pageVars, trackedElements, pendingUpdates,
                             rafCallbacks, activeMediaId, nextUuid, outbox>>
              /\ emitted' = <<>>
              /\ cancelled' = {}
         ELSE LET e == trackedElements[id] IN
              /\ trackedElements' = Del(trackedElements, id)
              /\ dataset' = [dataset EXCEPT ![e] = NoId]
              /\ UNCHANGED <<paused, ended, currentTime, duration, nextUuid>>
              /\ pendingUpdates' =
                   [k \in DOMAIN pendingUpdates \ {id} |-> pendingUpdates[k]]
              /\ NonePending(pendingUpdates', rafCallbacks', id)
              /\ cancelled' = IF Has(pendingUpdates, id) THEN {id} ELSE {}
              /\ IF activeMediaId = id
                   THEN /\ activeMediaId' = NoId
                        /\ Msgs(emitted') = <<RemovedMsg(id)>>
                        /\ outbox' = Append(outbox, RemovedMsg(id))
                   ELSE /\ activeMediaId' = activeMediaId
                        /\ emitted' = <<>>
                        /\ outbox' = outbox]_vars

\* C25 witness: a tracked element that was not the active one, with a
\* deferred flush pending, was torn down: the callback is cancelled, the
\* element is gone from the tracked set, the active slot still holds the
\* other element and nothing was sent.
C25_Witness ==
  /\ last.op = "unregister"
  /\ last.id # NoId
  /\ cancelled = {last.id}
  /\ ~Has(trackedElements, last.id)
  /\ activeMediaId # NoId
  /\ Has(trackedElements, activeMediaId)
  /\ emitted = <<>>

(***************************************************************************)
(* SpecUpsert: the Registry under Updates of one tab whose payloads differ *)
(* in the fields they carry, next to the Session of another tab, while     *)
(* time passes.                                                            *)
(***************************************************************************)
\* payloads for element id: what serializeElement builds, the same with a
\* media title, and one with nothing but the state
UpsertPayloads(id) ==
  UNION {{Payload(id, p),
          Spread(Payload(id, p), [title |-> "A Song"]),
          [type |-> MEDIA_UPDATE, elementId |-> id, isPlaying |-> p,
           currentTime |-> 0]} : p \in BOOLEAN}

\* a content script of the Agent's tab sends an Update
PageSend(payload) ==
  /\ Len(outbox) <= MaxBacklog
  /\ outbox' = Append(outbox, payload)
  /\ Did("send", payload.elementId)
  /\ UNCHANGED <<pageVars, trackedElements, pendingUpdates, rafCallbacks,
                 activeMediaId, nextUuid, settling, pagehideDone, emitted,
                 cancelled, ack, hubVars, obsVars>>

NextUpsert ==
  \/ \E id \in 1..MaxIds : \E payload \in UpsertPayloads(id) : PageSend(payload)
  \/ Deliver
  \/ ExtUpdate(HubTab, 1, TRUE)
  \/ Tick

SpecUpsert == InitSpecHub /\ [][NextUpsert]_vars

\* the fields handleMediaUpdate and normalizePayload set themselves
SetFields ==
  {"sourceUrl", "origin", "siteName", "tabId", "sessionId", "elementId",
   "lastUpdated"}

\* C26 (applyUpdate upsert): an Update of tab p for element e puts under
\* the key (p, e) a record that has the payload's fields and the seven
\* fields the handler sets, and no other: the payload's values, the
\* normalized sourceUrl, origin and siteName, sessionId, tabId, elementId and
\* lastUpdated = now; a key that is new is added after the others, one that
\* exists keeps its place; every other Session is unchanged; and there is
\* exactly one broadcast, whether or not the record changed.
C26_ApplyUpdateUpsert ==
  [][(last'.op = "deliver" /\ IsUpdate(Head(outbox))) =>
       LET payload == Head(outbox)
           key     == buildSessionId(AgentTab, payload.elementId)
           rec     == mapGet(mediaSessions', key)
           n       == Len(mediaSessions)
       IN  /\ mapHas(mediaSessions', key)
           /\ DOMAIN rec = (DOMAIN payload) \cup SetFields
           /\ \A f \in (DOMAIN payload) \ SetFields : rec[f] = payload[f]
           /\ rec.sourceUrl = Or(Field(payload, "sourceUrl"), PageUrl)
           /\ rec.origin = Or(Field(payload, "origin"), PageHost)
           /\ rec.siteName = Or(Field(payload, "siteName"), "A Title")
           /\ rec.tabId = AgentTab
           /\ rec.sessionId = key
           /\ rec.elementId = payload.elementId
           /\ rec.lastUpdated = now
           /\ Len(mediaSessions') =
                IF mapHas(mediaSessions, key) THEN n ELSE n + 1
           /\ IndexOf(mediaSessions', key) =
                IF mapHas(mediaSessions, key)
                  THEN IndexOf(mediaSessions, key) ELSE n + 1
           /\ \A i \in 1..n :
                mediaSessions[i].sessionId # key =>
                  mediaSessions'[i] = mediaSessions[i]
           /\ bcasts' = 1]_vars

\* C26 witness: the Session of the Agent's tab, stored before the Session of
\* the other tab, has been replaced later, in its place, by a record built
\* from a payload with nothing but the state; the other Session is there.
C26_Witness ==
  /\ last.op = "deliver"
  /\ bcasts = 1
  /\ Len(mediaSessions) = 2
  /\ mediaSessions[1].tabId = AgentTab
  /\ mediaSessions[2].tabId = HubTab
  /\ mediaSessions[1].lastUpdated > mediaSessions[2].lastUpdated
  /\ "duration" \notin DOMAIN mediaSessions[1]
  /\ mediaSessions[1].siteName = "A Title"

(***************************************************************************)
(* SpecRoute: commands for the Session of the Agent's tab, where the       *)
(* content script receives them, and for the Session of a tab where no     *)
(* content script listens, so that chrome.tabs.sendMessage to it fails.    *)
(***************************************************************************)
RouteTime     == 10    \* the position a popup's slider is released at
RouteSessions == {buildSessionId(AgentTab, 1), buildSessionId(HubTab, 1)}

NextRoute ==
  \/ Register(SeekElem)
  \/ Deliver
  \/ ExtUpdate(HubTab, 1, TRUE)
  \/ \E o \in Observers : ObsInit(o, FALSE)
  \/ \E p \in Ports : BgOnConnect(p)
  \/ \E p \in Ports : ObsRecv(p)
  \/ \E o \in Observers, k \in RouteSessions :
       ObsCommand(o, k, SEEK_ABSOLUTE, RouteTime)
  \/ \E p \in Ports : BgOnPortMessage(p)
  \/ AgentRecv(TRUE)

SpecRoute == InitSpecHub /\ [][NextRoute]_vars

\* the message dispatchMediaCommand hands to chrome.tabs.sendMessage
RoutedMsg(session, message) ==
  [tabId |-> session.tabId, type |-> MEDIA_COMMAND,
   elementId |-> session.elementId, command |-> message.command,
   arg |-> message.arg]

\* C27 (routing a live command): for a Command whose sessionId is a key of
\* the Registry the background calls chrome.tabs.sendMessage exactly once,
\* for the tab of that Session, with the Session's elementId and the
\* Command's command and parameter; the Registry and the live set are
\* unchanged, nothing is broadcast and nothing is put on any popup's port;
\* the Command is consumed, so it is not sent again; a send that fails
\* leaves nothing behind; and a message reaches a tab only by such a step.
C27_RouteLiveCommand ==
  /\ [][(last'.op = "onPortMessage"
           /\ Head(channel[LastPort'].up).type = MEDIA_COMMAND
           /\ mapHas(mediaSessions, Head(channel[LastPort'].up).sessionId)) =>
          LET p       == LastPort'
              message == Head(channel[p].up)
              session == mapGet(mediaSessions, message.sessionId)
          IN  /\ tabSends' = <<RoutedMsg(session, message)>>
              /\ session.sessionId = message.sessionId
              /\ mediaSessions' = mediaSessions
              /\ popupPorts' = popupPorts
              /\ bcasts' = 0
              /\ channel'[p].up = Tail(channel[p].up)
              /\ \A q \in DOMAIN channel : channel'[q].down = channel[q].down
              /\ inbox' = IF session.tabId = AgentTab
                            THEN Append(inbox, RoutedMsg(session, message))
                            ELSE inbox]_vars
  /\ [][Len(inbox') > Len(inbox) => last'.op = "onPortMessage"]_vars

\* C27 witness: with both popups connected and up to date, a Command for the
\* Session of the tab without a listening content script was routed: one
\* send, to that tab, which fails; no broadcast, nothing for any popup,
\* nothing left to send.
C27_Witness ==
  /\ last.op = "onPortMessage"
  /\ Len(tabSends) = 1
  /\ tabSends[1].tabId = HubTab
  /\ tabSends[1].command = SEEK_ABSOLUTE
  /\ tabSends[1].arg = RouteTime
  /\ bcasts = 0
  /\ inbox = <<>>
  /\ Len(mediaSessions) = 2
  /\ \A o \in Observers :
       /\ Connected(o)
       /\ channel[port[o]].down = <<>>
       /\ channel[port[o]].up = <<>>

(***************************************************************************)
(* Properties of a popup whose chrome.runtime.connect throws (SpecHub).    *)
(***************************************************************************)
\* C28 (failed open is not retried): a connectPort that leaves the popup
\* without a port creates no channel (so no listener is registered) and
\* schedules no timer: from init() the timers are as before, from a timer
\* only the timer that fired is gone; a popup without a port posts nothing
\* when a control is used and receives nothing; it gets a port only by a
\* later init() or timer of its own, and a timer is scheduled only by the
\* disconnect listener.
C28_FailedOpenNotRetried ==
  /\ [][(last'.op \in {"init", "timer"} /\ port'[last'.id] = NoPort) =>
          /\ port[last'.id] = NoPort
          /\ timers'[last'.id] = IF last'.op = "timer"
                                   THEN timers[last'.id] - 1
                                   ELSE timers[last'.id]
          /\ channel' = channel
          /\ connects' = connects
          /\ sessionMap' = sessionMap
          /\ posted' = <<>>]_vars
  /\ [][(last'.op = "sendCommand" /\ port[last'.id] = NoPort) =>
          /\ posted' = <<>>
          /\ channel' = channel]_vars
  /\ [][last'.op = "obsRecv" => port[last'.id] = <<last'.id, last'.arg>>]_vars
  /\ [][\A o \in Observers :
          /\ (port[o] = NoPort /\ port'[o] # NoPort) =>
                (last'.op \in {"init", "timer"} /\ last'.id = o)
          /\ timers'[o] > timers[o] =>
                (last'.op = "obsOnDisconnect" /\ last'.id = o)]_vars

\* C28 witness: a popup that had a port before, lost it and failed to open
\* a new one from its timer uses a control of a Session it still shows:
\* nothing is posted, no timer is pending, while the Registry has a Session.
C28_Witness ==
  /\ last.op = "sendCommand"
  /\ port[last.id] = NoPort
  /\ timers[last.id] = 0
  /\ connects[last.id] > 0
  /\ DOMAIN sessionMap[last.id] # {}
  /\ posted = <<>>
  /\ Len(mediaSessions) > 0

(***************************************************************************)
(* The Registry as an image of the Agent's active slot (SpecAgent: the     *)
(* Agent's messages are delivered in send order, none is lost, and the     *)
(* Agent's tab is not closed).                                             *)
(***************************************************************************)
\* element ids of the Registry's Sessions of a tab
RegistryIds(tabId) == {mediaSessions[i].elementId : i \in SessionsOf(tabId)}

\* what the Agent's active slot stands for
ActiveIds == IF activeMediaId # NoId THEN {activeMediaId} ELSE {}

\* the keys handleMediaUpdate / handleMediaRemoved leave of `ids` once the
\* messages `msgs` have been applied in order
RECURSIVE AppliedIds(_, _)
AppliedIds(ids, msgs) ==
  IF msgs = <<>> THEN ids
  ELSE AppliedIds(IF IsUpdate(Head(msgs))
                    THEN ids \cup {Head(msgs).elementId}
                    ELSE ids \ {Head(msgs).elementId},
                  Tail(msgs))

\* C29 (Agent-to-Registry refinement): when every message the Agent has sent
\* has been applied, the Registry's Sessions of the page are exactly the one
\* of the active element, under the key (page, active id), if the active
\* slot is non-empty, and none if it is empty; and while messages are in
\* flight, applying them in order to the Registry's Sessions gives that set.
C29_AgentRegistryRefinement ==
  /\ outbox = <<>> =>
       /\ RegistryIds(AgentTab) = ActiveIds
       /\ \A i \in SessionsOf(AgentTab) :
            mediaSessions[i].sessionId = buildSessionId(AgentTab, activeMediaId)
       /\ Cardinality(SessionsOf(AgentTab)) = Cardinality(ActiveIds)
  /\ AppliedIds(RegistryIds(AgentTab), outbox) = ActiveIds

\* C29 witness: the Remove of a torn-down active element has just been
\* applied; nothing is in flight, another element is still tracked, the
\* active slot is empty and the Registry has no Session of the page.
C29_Witness ==
  /\ last.op = "deliver"
  /\ deleted = 1
  /\ outbox = <<>>
  /\ activeMediaId = NoId
  /\ DOMAIN trackedElements # {}
  /\ SessionsOf(AgentTab) = {}
  /\ ~pagehideDone

(***************************************************************************)
(* The active slot after the active element is torn down (SpecAgent).      *)
(***************************************************************************)
\* C30 (no re-election on teardown): tearing the active element down leaves
\* the active slot empty and sends no Update, whatever the other tracked
\* elements are doing; while the slot is empty no handler of the Agent sends
\* anything; and the slot gets an id again only when an element that was not
\* tracked is registered or a tracked element fires play.
C30_NoReelectionOnTeardown ==
  /\ [][(last'.op = "unregister" /\ last'.id # NoId
           /\ last'.id = activeMediaId) =>
          /\ activeMediaId' = NoId
          /\ \A i \in 1..Len(emitted') : IsRemove(emitted'[i].msg)]_vars
  /\ [][(activeMediaId = NoId /\ activeMediaId' = NoId
           /\ last'.op # "deliver") =>
          /\ emitted' = <<>>
          /\ outbox' = outbox]_vars
  /\ [][(activeMediaId = NoId /\ activeMediaId' # NoId) =>
          \/ \E e \in Elems :
               /\ RegisterStep(e)
               /\ ~Attached(e)
               /\ dataset'[e] = activeMediaId'
          \/ PlayFired(activeMediaId')]_vars

\* C30 witness: the active element was torn down while another tracked
\* element is playing; its Remove has been applied, and an event of the
\* playing element was handled since: the slot is still empty, nothing was
\* sent and the Registry has no Session of the page.
C30_Witness ==
  /\ last.op = "volumechange"
  /\ Has(trackedElements, last.id)
  /\ ~paused[trackedElements[last.id]] /\ ~ended[trackedElements[last.id]]
  /\ \E e \in Elems : dataset[e] = NoId /\ ~Attached(e)
  /\ nextUuid > NumElems
  /\ activeMediaId = NoId
  /\ emitted = <<>>
  /\ outbox = <<>>
  /\ SessionsOf(AgentTab) = {}
  /\ ~pagehideDone

(***************************************************************************)
(* SpecLate: messages of a tab that the background handles after the       *)
(* tab's chrome.tabs.onRemoved.  An Agent sends with fire-and-forget       *)
(* chrome.runtime.sendMessage, so an Update or a Remove it sent before the *)
(* tab closed may be dispatched to the background after the removal.       *)
(***************************************************************************)
\* an Update of closed tab t is dispatched
LateUpdate(t) ==
  /\ t \in closedTabs
  /\ ExtUpdate(t, 1, TRUE)

\* a Remove of closed tab t is dispatched
LateRemove(t) ==
  /\ t \in closedTabs
  /\ ExtRemove(t, 1)

\* the chrome.tabs.onRemoved listener runs for the id of a closed tab again
EvictAgain(t) ==
  /\ t \in closedTabs
  /\ TabRemoved(t)

NextLate ==
  \/ \E t \in 1..NumTabs : TabUpdate(t)
  \/ \E t \in 1..NumTabs : TabClosed(t)
  \/ \E t \in 1..NumTabs : LateUpdate(t)
  \/ \E t \in 1..NumTabs : LateRemove(t)
  \/ \E t \in 1..NumTabs : EvictAgain(t)
  \/ \E o \in Observers : ObsInit(o, FALSE)
  \/ \E p \in Ports : BgOnConnect(p)
  \/ \E p \in Ports : ObsRecv(p)

SpecLate == InitSpecHub /\ [][NextLate]_vars

StaleCommandStep ==
  /\ last'.op \in MEDIA_COMMANDS
  /\ Has(trackedElements, last'.id)
  /\ last'.id # activeMediaId

\* where seekTo puts element e for a target
SeekTarget(e, target) ==
  IF IsFinite(duration[e]) /\ duration[e] > 0
    THEN Min(Max(0, target), duration[e])
    ELSE Max(0, target)

\* C32 (stale command can re-elect): a known command for a tracked element
\* that is not active is executed on that element and never answered with
\* unknown-element: a seek moves the element and is acknowledged ok at once
\* (nothing is sent, the active slot is unchanged), a toggle-play pauses a
\* playing element or starts a paused one and is acknowledged ok when it
\* settles; when the toggle-play starts the element, the play event makes it
\* the active element, and the handler sends Remove for the element that was
\* active and then Update for the commanded one.
C32_StaleCommandReelects ==
  /\ [][StaleCommandStep =>
          LET id == last'.id
              e  == trackedElements[id]
          IN
          /\ ack' # "unknown-element"
          /\ trackedElements' = trackedElements
          /\ last'.op = SEEK_ABSOLUTE =>
               /\ currentTime'[e] = SeekTarget(e, last'.arg)
               /\ ack' = "ok"
               /\ activeMediaId' = activeMediaId
               /\ emitted' = <<>>
          /\ last'.op = SEEK_RELATIVE =>
               /\ currentTime'[e] = SeekTarget(e, currentTime[e] + last'.arg)
               /\ ack' = "ok"
               /\ activeMediaId' = activeMediaId
               /\ emitted' = <<>>
          /\ (last'.op = TOGGLE_PLAY /\ ~paused[e] /\ ~ended[e]) =>
               /\ paused'[e]
               /\ activeMediaId' = activeMediaId
               /\ emitted' = <<>>
          /\ (last'.op = TOGGLE_PLAY /\ (paused[e] \/ ended[e])
                /\ ~paused'[e] /\ ~ended'[e]) =>
               /\ activeMediaId' = id
               /\ IF activeMediaId = NoId
                    THEN /\ Len(emitted') >= 1
                         /\ \A i \in 1..Len(emitted') :
                              /\ IsUpdate(emitted'[i].msg)
                              /\ emitted'[i].msg.elementId = id
                    ELSE /\ Len(emitted') >= 2
                         /\ emitted'[1].msg = RemovedMsg(activeMediaId)
                         /\ \A i \in 2..Len(emitted') :
                              /\ IsUpdate(emitted'[i].msg)
                              /\ emitted'[i].msg.elementId = id
                              /\ emitted'[i].msg.isPlaying]_vars
  /\ [][last'.op = "settle" => ack' = "ok"]_vars

\* C32 witness: while another element, still tracked and playing, was the
\* active one, a toggle-play for a paused tracked element started it: it is
\* the active element now, and Remove for the other one and Update for it
\* were sent, in this order.
C32_Witness ==
  /\ last.op = TOGGLE_PLAY
  /\ activeMediaId = last.id
  /\ Len(emitted) >= 2
  /\ IsRemove(emitted[1].msg)
  /\ emitted[1].msg.elementId # last.id
  /\ Has(trackedElements, emitted[1].msg.elementId)
  /\ ~paused[trackedElements[emitted[1].msg.elementId]]
  /\ IsUpdate(emitted[2].msg)
  /\ emitted[2].msg.elementId = last.id
  /\ ack = "none"

(***************************************************************************)
(* What one play event sends (SpecAgent).                                  *)
(***************************************************************************)
\* the Update serializeElement builds for element e after the step
UpdateAfter(e) ==
  [type        |-> MEDIA_UPDATE,
   elementId   |-> dataset'[e],
   isPlaying   |-> ~paused'[e] /\ ~ended'[e],
   isEnded     |-> ended'[e],
   duration    |-> IF IsFinite(duration'[e]) /\ duration'[e] > 0
                     THEN duration'[e] ELSE Null,
   currentTime |-> IF IsFinite(currentTime'[e]) /\ currentTime'[e] >= 0
                     THEN currentTime'[e] ELSE 0,
   origin      |-> "a.example",
   siteName    |-> "A Site",
   sourceUrl   |-> "https://a.example/watch"]

\* C33 (update count per play event): the handler of a play event of a
\* tracked element that is not the active one sends Remove for the active
\* element, if there is one, and then two Updates of the element that fired
\* play, and nothing else; the handler of a play event of the active
\* element sends one Update and no Remove.
C33_UpdateCountPerPlay ==
  [][\A id \in 1..MaxIds :
       PlayFired(id) =>
         LET u == UpdateAfter(trackedElements[id]) IN
         /\ activeMediaId' = id
         /\ Msgs(emitted') =
              IF activeMediaId = id THEN <<u>>
              ELSE IF activeMediaId = NoId THEN <<u, u>>
              ELSE <<RemovedMsg(activeMediaId), u, u>>
         /\ outbox' = outbox \o Msgs(emitted')]_vars

\* C33 witness: a play event of a tracked element that was not the active
\* one, while another element was: three messages, Remove for the other
\* element and the same Update twice.
C33_Witness ==
  /\ last.op = "play"
  /\ activeMediaId = last.id
  /\ Len(emitted) = 3
  /\ IsRemove(emitted[1].msg)
  /\ emitted[1].msg.elementId # last.id
  /\ IsUpdate(emitted[2].msg)
  /\ emitted[2].msg.elementId = last.id
  /\ emitted[3].msg = emitted[2].msg

(***************************************************************************)
(* SpecChannels: popups that lose their port and open another one while    *)
(* the port they had before still exists on the background's side.         *)
(***************************************************************************)
MaxReopens == 2    \* ports one popup opens in a run of SpecChannels
Reopened   == Observers \X (1..MaxReopens)

\* setTimeout(connectPort, 600) fires
ObsRetry(o, throws) ==
  /\ timers[o] > 0
  /\ throws \/ connects[o] < MaxReopens
  /\ StoreObs(o, connectPort([ObsState(o) EXCEPT !.timers = @ - 1], o, throws))
  /\ Did("timer", o)
  /\ UNCHANGED <<pageVars, agentVars, mediaSessions, popupPorts, browserVars,
                 bcasts, deleted, tabSends, inbox>>

NextChannels ==
  \/ \E o \in Observers, throws \in BOOLEAN : ObsInit(o, throws)
  \/ \E o \in Observers, throws \in BOOLEAN : ObsRetry(o, throws)
  \/ \E p \in Reopened : ChannelBreak(p)
  \/ \E p \in Reopened : ObsOnDisconnect(p)
  \/ \E p \in Reopened : ObsRecv(p)
  \/ \E p \in Reopened : BgOnConnect(p)
  \/ \E p \in Reopened : BgOnDisconnect(p)

SpecChannels == InitSpecHub /\ [][NextChannels]_vars

\* the ports of popup o that are intact
OpenPorts(o) == {p \in DOMAIN channel : p[1] = o /\ channel[p].open}

\* the ports of popup o whose listeners the popup has not been released from
HeardPorts(o) == {p \in DOMAIN channel : p[1] = o /\ ~channel[p].obsTold}

\* C34 (one channel per Observer): a popup has at most one intact port, and
\* it is the one `port` refers to; it listens on at most that port; it has
\* at most one connectPort scheduled, and none while `port` is set; and a
\* connectPort is scheduled only by the disconnect listener of the port the
\* popup held, one per disconnect.
C34_OneChannelPerObserver ==
  /\ [](\A o \in Observers :
         /\ Cardinality(OpenPorts(o)) <= 1
         /\ OpenPorts(o) \subseteq {port[o]}
         /\ HeardPorts(o) \subseteq {port[o]}
         /\ timers[o] \in {0, 1}
         /\ timers[o] > 0 => (port[o] = NoPort /\ OpenPorts(o) = {}))
  /\ [][\A o \in Observers :
          timers'[o] > timers[o] =>
            /\ last'.op = "obsOnDisconnect"
            /\ last'.id = o
            /\ port[o] = <<o, last'.arg>>
            /\ timers'[o] = timers[o] + 1]_vars

\* C34 witness: a popup holds its second port, intact, with no connectPort
\* scheduled, while the port it held first still exists, broken; the other
\* popup has lost its port and has one connectPort scheduled.
C34_Witness ==
  \E o, q \in Observers :
    /\ port[o] = <<o, 2>>
    /\ OpenPorts(o) = {port[o]}
    /\ Has(channel, <<o, 1>>)
    /\ timers[o] = 0
    /\ port[q] = NoPort
    /\ timers[q] = 1
    /\ OpenPorts(q) = {}

(***************************************************************************)
(* The Agent's bookkeeping (SpecAgent).                                    *)
(***************************************************************************)
\* C35 (Agent bookkeeping invariant): the active slot is empty or holds a
\* key of trackedElements; every key of pendingUpdates is a key of
\* trackedElements, and so is the element id of every scheduled frame
\* callback, whose element is the one tracked under that id; a tracked
\* element carries the id it is tracked under.
C35_AgentBookkeeping ==
  /\ activeMediaId = NoId \/ Has(trackedElements, activeMediaId)
  /\ DOMAIN pendingUpdates \subseteq DOMAIN trackedElements
  /\ \A r \in DOMAIN rafCallbacks :
       /\ Has(trackedElements, rafCallbacks[r].elementId)
       /\ trackedElements[rafCallbacks[r].elementId] = rafCallbacks[r].element
  /\ \A id \in DOMAIN trackedElements : dataset[trackedElements[id]] = id

\* C35 witness: the active element, which had a deferred flush pending, was
\* torn down: its callback is cancelled and the slot is empty, while the
\* other element is still tracked and still has its deferred flush pending.
C35_Witness ==
  /\ last.op = "unregister"
  /\ cancelled = {last.id}
  /\ Len(emitted) = 1
  /\ emitted[1].msg = RemovedMsg(last.id)
  /\ activeMediaId = NoId
  /\ ~Has(trackedElements, last.id)
  /\ DOMAIN pendingUpdates # {}
  /\ DOMAIN pendingUpdates = DOMAIN trackedElements
====
